---- MODULE Spec2Model ----
(***************************************************************************)
(* The serial session of pc_companion.py (the device file-sync protocol):  *)
(* link open, interrupt, firmware info, file system stats, listing, dump,  *)
(* wipe / reformat, upload, close.  The device is the environment: every   *)
(* read draws what the device (or the read timeout) delivers.              *)
(* Two benches stand beside the session: calculate_checksum called on its  *)
(* own, and the upload and dump loops run against a simulated device.      *)
(***************************************************************************)
EXTENDS Integers, Sequences, FiniteSets, Bags, TLC

VARIABLES
    pc,          \* position in the script
    ret,         \* where wait_ready returns to
    args,        \* the parsed command line (action flags and settings)
    link,        \* the serial.Serial object: "none", "open", "closed"
    io,          \* everything written to and read from the link, in order
    fs,          \* the local file system under FS_PATH, in os.walk order
    fs_listing,  \* the listing dict, in insertion order
    idx,         \* loop position: index into fs_listing (dump) or the walk (upload)
    block,       \* block = f.read(256)
    fpos,        \* read position of the open local file f
    t_start,     \* seconds elapsed since t_start = timer()
    out,         \* the per-file [ERR] and [WRN] lines printed so far
    err,         \* the message the script ended with ("" while running)
    given,       \* bench: the byte arrays calculate_checksum is called with
    returned,    \* bench: the value calculate_checksum returned
    dev,         \* bench: the files the simulated device holds
    origin,      \* bench: the local tree as it was before the upload
    argv,        \* menu: sys.argv[1:], each argument a text (a sequence of words)
    conf,        \* menu: the module globals the edit menu changes (ACT_*, VERBOSE, ...)
    command,     \* menu: the words of the command line the menu printed
    rows,        \* gtfs: the rows of the stop-times file
    sequence,    \* gtfs: sequence, trip id -> (stop_sequence -> stop id)
    patterns,    \* gtfs: patterns, trip id -> stop ids in stopping order
    pattern_queue, \* gtfs: the patterns merge_patterns still has to merge
    merge_result, \* gtfs: result of merge_patterns, the pattern merged so far
    merged,      \* gtfs: merged, the flag of one pass of the outer loop
    scan,        \* gtfs: rows read so far; i of "for i in range(len(pattern_queue))"
    call         \* gtfs: the locals of the merge_two_patterns call in progress

session == <<pc, ret, args, link, io, fs, fs_listing, idx, block, fpos, t_start, out, err>>
menu == <<argv, conf, command>>
gtfs == <<rows, sequence, patterns, pattern_queue, merge_result, merged, scan, call>>
bench == <<given, returned, dev, origin, menu, gtfs>>
vars == <<pc, ret, args, link, io, fs, fs_listing, idx, block, fpos, t_start, out, err,
          given, returned, dev, origin, argv, conf, command,
          rows, sequence, patterns, pattern_queue, merge_result, merged, scan, call>>

(***************************************************************************)
(* Bounds of the model.                                                    *)
(***************************************************************************)
MaxFiles == 2      \* files in the uploaded tree
MaxEntries == 2    \* entries the device sends in one listing
MaxResend == 1     \* 0x21 answers the device gives in one session
MaxLen == 3        \* bytes calculate_checksum is called with, on its bench
MaxRows == 3       \* rows in the stop-times file
MaxStops == 3      \* stops in a trip's pattern, for lists of one or two trips
MaxTrips == 3      \* trips in the list given to merge_patterns
MaxRetry == 20     \* 0x21 answers in a row the stubborn device gives to one block

(***************************************************************************)
(* Bytes of the wire protocol.                                             *)
(***************************************************************************)
READY == 62        \* b'>'
ST_OK == 64        \* 0x40
ST_FAIL == 88      \* 0x58
ST_RESEND == 33    \* 0x21
ST_CONFIRM == 46   \* 0x2E
BLOCK_MARK == 66   \* b'\x42'
EOF_MARK == 70     \* b'\x46'
PING == 9          \* b'\t'
LF == 10           \* '\n'
NUL == 0           \* b'\0'
BLOCK_LEN == 256   \* f.read(256)
DEVICE_TIMEOUT == 10        \* --timeout default
REFORMAT_REQ_TIMEOUT == 5   \* --format-req-timeout 5
REFORMAT_TIMEOUT == 5       \* --format-timeout 5

\* a byte no branch of the script tests for
JUNK == CHOOSE b \in 0..255 : b \notin {READY, ST_OK, ST_FAIL, ST_RESEND, ST_CONFIRM, NUL, LF}

CMD_V == <<118, LF>>           \* b'v\n'
CMD_I == <<73, LF>>            \* b'I\n'
CMD_L == <<76, LF>>            \* b'L\n'
CMD_Z == <<90, LF>>            \* b'Z\n'
CMD_WIPE == <<88, 58, 47, LF>> \* b'X:/\n'
CMD_R(path) == <<82, 58>> \o path \o <<LF>>  \* f'R:{dev_path}\n'
CMD_W(path) == <<87, 58>> \o path \o <<LF>>  \* f'W:{dev_path}\n'

(***************************************************************************)
(* Pure helpers.                                                           *)
(***************************************************************************)
\* sum(array): the bag with s[i] + 1 copies of each index i holds
\* Len(s) + sum(s) elements
Sum(s) == BagCardinality([i \in DOMAIN s |-> s[i] + 1]) - Len(s)

\* an unsigned 32-bit value, kept as its two 16-bit halves
U32(hi, lo) == [hi |-> hi, lo |-> lo]
Small(n) == U32(n \div 65536, n % 65536)
\* the value as an integer of TLC (31 bits): larger values are only
\* ever compared with lengths far below them
AsInt(v) == IF v.hi < 32768 THEN v.hi * 65536 + v.lo ELSE 2147483647

\* the little-endian bytes the device sends for a 32-bit value
Pack32(v) == << v.lo % 256, v.lo \div 256, v.hi % 256, v.hi \div 256 >>

\* faulty variant: struct.unpack('>L', data)[0]
Unpack32_BigEndian(data) == U32(data[2] + 256 * data[1], data[4] + 256 * data[3])

\* struct.unpack('<L', data)[0]
Unpack32(data) == U32(data[3] + 256 * data[4], data[1] + 256 * data[2])

NOT_FOUND == U32(65535, 65535)      \* 0xFFFFFFFF
CANNOT_OPEN1 == U32(65535, 65534)   \* 0xFFFFFFFE
CANNOT_OPEN2 == U32(65535, 65533)   \* 0xFFFFFFFD

\* faulty variant: the outer & 0xFF is left out
calculate_checksum_NoMask(arrays) ==
    256 - (Sum([i \in 1..Len(arrays) |-> Sum(arrays[i])]) % 256)

\* calculate_checksum(*args): args is the sequence of byte arrays
calculate_checksum(arrays) ==
    (256 - (Sum([i \in 1..Len(arrays) |-> Sum(arrays[i])]) % 256)) % 256

\* s[:-1]
DropLast(s) == IF s = <<>> THEN <<>> ELSE SubSeq(s, 1, Len(s) - 1)

\* s[1:]
DropFirst(s) == IF s = <<>> THEN <<>> ELSE Tail(s)

\* faulty variant: one byte less than a block is read
ReadBlock_OneLess(data, pos) ==
    SubSeq(data, pos + 1,
           IF pos + BLOCK_LEN - 1 < Len(data) THEN pos + BLOCK_LEN - 1 ELSE Len(data))

\* faulty variant: each read starts one byte too far
ReadBlock_SkipByte(data, pos) ==
    SubSeq(data, pos + 2, IF pos + BLOCK_LEN < Len(data) THEN pos + BLOCK_LEN ELSE Len(data))

\* f.read(256) at file position pos (0-based)
ReadBlock(data, pos) ==
    SubSeq(data, pos + 1, IF pos + BLOCK_LEN < Len(data) THEN pos + BLOCK_LEN ELSE Len(data))

\* faulty variant: the listing is a list, every entry is appended
DictSet_Append(d, path, size) == Append(d, [path |-> path, size |-> size])

\* dict assignment d[path] = size on an insertion-ordered dict
DictSet(d, path, size) ==
    IF \E i \in 1..Len(d) : d[i].path = path
    THEN [i \in 1..Len(d) |-> IF d[i].path = path THEN [path |-> path, size |-> size] ELSE d[i]]
    ELSE Append(d, [path |-> path, size |-> size])

\* the local tree with file rel (re)created holding data: open(pc_path, 'wb') and f.write
FsPut(tree, rel, data) ==
    IF \E i \in 1..Len(tree) : tree[i].rel = rel
    THEN [i \in 1..Len(tree) |-> IF tree[i].rel = rel THEN [rel |-> rel, data |-> data] ELSE tree[i]]
    ELSE Append(tree, [rel |-> rel, data |-> data])

(***************************************************************************)
(* The io log.                                                             *)
(***************************************************************************)
Wr(at, data) == [op |-> "w", at |-> at, n |-> Len(data), data |-> data]
Rd(at, n, data) == [op |-> "r", at |-> at, n |-> n, data |-> data]

(***************************************************************************)
(* Inputs: command lines, local trees, and what the device sends.          *)
(***************************************************************************)
Flags(go, uo, lf, df, v, nf) ==
    [generate_only |-> go, upload_only |-> uo, list_files |-> lf,
     dump_files |-> df, verbose |-> v, no_format |-> nf]

\* the action group is mutually exclusive (argparse); -v and -nf are given
\* where the serial phase of that action reads them
ArgChoices ==
    { Flags(FALSE, FALSE, FALSE, FALSE, FALSE, FALSE),
      Flags(FALSE, TRUE, FALSE, FALSE, FALSE, TRUE),
      Flags(TRUE, FALSE, FALSE, FALSE, FALSE, FALSE),
      Flags(FALSE, FALSE, TRUE, FALSE, FALSE, FALSE),
      Flags(FALSE, FALSE, TRUE, FALSE, TRUE, FALSE),
      Flags(FALSE, FALSE, FALSE, TRUE, FALSE, FALSE) }

ACT_LIST_FS == args.list_files
ACT_DUMP_FS == args.dump_files
ACT_RETRIEVE_FS_LISTING == ACT_LIST_FS \/ ACT_DUMP_FS
ACT_GENERATE ==
    IF ~args.generate_only /\ ~args.upload_only /\ ~ACT_RETRIEVE_FS_LISTING
    THEN TRUE ELSE args.generate_only
ACT_UPLOAD ==
    IF ~args.generate_only /\ ~args.upload_only /\ ~ACT_RETRIEVE_FS_LISTING
    THEN TRUE ELSE args.upload_only
ACT_CONNECT_DEV == ACT_RETRIEVE_FS_LISTING \/ ACT_UPLOAD
VERBOSE == args.verbose
\* faulty variant: the flag is read the wrong way round
NO_REFORMAT_Inverted == ~args.no_format
NO_REFORMAT == args.no_format

\* file contents: n bytes, none of them constant
Bytes(seed, n) == [i \in 1..n |-> (seed + 37 * i) % 256]

\* the sample volume the uploaded trees are cut from: file k is named fk and
\* its size runs through 257, 0, 256, 1
SampleSize(k) ==
    CASE k % 4 = 1 -> BLOCK_LEN + 1
      [] k % 4 = 2 -> 0
      [] k % 4 = 3 -> BLOCK_LEN
      [] OTHER -> 1
SampleFile(k) == [rel |-> <<102, 48 + k>>, data |-> Bytes(k, SampleSize(k))]

\* local trees: up to MaxFiles consecutive files of the sample volume
Trees ==
    { [i \in 1..n |-> SampleFile(first + i - 1)] : first \in 1..4, n \in 0..MaxFiles }

\* the trees the dataset pipeline leaves: the sample volume from its first file on
GeneratedTrees == { T \in Trees : T = <<>> \/ T[1] = SampleFile(1) }

PathA == <<47, 97>>   \* "/a"
PathB == <<47, 98>>   \* "/b"

\* answers to device.read(): nothing within the timeout, or one of the bytes
\* the reading code tells apart and one it does not
OneByte(known) == { <<>> } \cup { <<b>> : b \in known }
ReadyReads == OneByte({READY, ST_OK})
WipeReads == OneByte({ST_OK, ST_FAIL, JUNK})
DecisionReads == OneByte({ST_CONFIRM, ST_FAIL, ST_OK})
ResultReads == OneByte({ST_OK, ST_FAIL, JUNK})

\* answers to read_32le's device.read(4): a short read, or a packed value
FourBytes(values) == { <<1, 0, 0>> } \cup { Pack32(v) : v \in values }

\* answers to device.read_until(): the firmware line ("1"), sent whole
FirmwareLines == { <<49, LF>> }

\* answers to device.read_until(b'\0'): a path and its NUL, or what the timeout left
PathReads == { <<NUL>>, PathA \o <<NUL>>, PathB \o <<NUL>>, PathA, <<>> }

\* sizes the device sends in a listing, and in answer to R:
ListSizes == { Small(1), NOT_FOUND }
ReadSizes == { Small(0), Small(1), NOT_FOUND, CANNOT_OPEN1, CANNOT_OPEN2 }

\* answers to device.read(5) after W: nothing, a status byte alone, or a status
\* byte and 4 reserved bytes of any value
FiveBytes ==
    { <<>>, <<ST_OK>>, <<ST_OK, ST_FAIL, 0, 0, 0>>, <<ST_FAIL, 0, 0, 0, 0>>, <<JUNK>> }

\* what the device has sent so far: listing entries, and 0x21 answers
IsEntry(e) == e.op = "r" /\ e.at = "L.path"
IsResend(e) == e.op = "r" /\ e.at = "ack" /\ e.data = <<ST_RESEND>>
EntriesSent == Cardinality({ i \in DOMAIN io : IsEntry(io[i]) })
ResendsSent == Cardinality({ i \in DOMAIN io : IsResend(io[i]) })

(***************************************************************************)
(* The script.                                                             *)
(***************************************************************************)
\* what is under FS_PATH before a run that does not upload it as it is
StaleTrees == { <<>>, <<SampleFile(4)>> }

\* the benches are not in use during a session
MenuIdle ==
    /\ argv = <<>>
    /\ conf = <<>>
    /\ command = <<>>

GtfsIdle ==
    /\ rows = <<>>
    /\ sequence = <<>>
    /\ patterns = <<>>
    /\ pattern_queue = <<>>
    /\ merge_result = <<>>
    /\ merged = FALSE
    /\ scan = 0
    /\ call = <<>>

BenchIdle ==
    /\ given = <<>>
    /\ returned = 0
    /\ dev = <<>>
    /\ origin = <<>>
    /\ MenuIdle
    /\ GtfsIdle

Init ==
    /\ BenchIdle
    /\ pc = "start"
    /\ ret = ""
    /\ args \in ArgChoices
    /\ link = "none"
    /\ io = <<>>
    /\ fs \in (IF args.upload_only THEN Trees ELSE StaleTrees)
    /\ fs_listing = <<>>
    /\ idx = 0
    /\ block = <<>>
    /\ fpos = 0
    /\ t_start = 0
    /\ out = <<>>
    /\ err = ""

\* exit(1) after printing msg; the script has no atexit handler and no finally
Exit(msg) == pc' = "exit" /\ err' = msg

\* an uncaught Python exception
Raise(exc) == pc' = "crash" /\ err' = exc

\* faulty variant: the upload phase is entered whatever the action
AfterDump_AlwaysUpload == "format"

\* the if-chain ACT_LIST_FS / ACT_DUMP_FS / ACT_UPLOAD / close
AfterDump == IF ACT_UPLOAD THEN "format" ELSE "close"
AfterList == IF ACT_DUMP_FS THEN "dump_start" ELSE AfterDump
AfterListing == IF ACT_LIST_FS THEN "list_fs" ELSE AfterList
\* faulty variant: the statistics are asked for whether verbose or not
AfterFirmware_StatsAlways ==
    IF ACT_RETRIEVE_FS_LISTING THEN "stats" ELSE AfterListing

AfterFirmware ==
    IF ACT_RETRIEVE_FS_LISTING
    THEN (IF VERBOSE THEN "stats" ELSE "list_cmd")
    ELSE AfterListing

\* if ACT_GENERATE: the dataset pipeline rebuilds the tree under FS_PATH, or gives up
generate_fs ==
    /\ pc = "start"
    /\ ACT_GENERATE
    /\ \/ /\ fs' \in GeneratedTrees
          /\ pc' = "connect"
          /\ UNCHANGED err
       \/ /\ Exit("No routes specified to generate dataset for")
          /\ UNCHANGED fs
    /\ UNCHANGED <<ret, args, link, io, fs_listing, idx, block, fpos, t_start, out>>
    /\ UNCHANGED bench

skip_generate ==
    /\ pc = "start"
    /\ ~ACT_GENERATE
    /\ pc' = "connect"
    /\ UNCHANGED <<ret, args, link, io, fs, fs_listing, idx, block, fpos, t_start, out, err>>
    /\ UNCHANGED bench

\* faulty variant: the version command follows the ping without the wait
connect_NoWait ==
    /\ pc = "connect"
    /\ IF ACT_CONNECT_DEV
       THEN \/ /\ link' = "open"
               /\ io' = Append(io, Wr("ping", <<PING>>))
               /\ pc' = "firmware"
               /\ UNCHANGED <<ret, err>>
            \/ /\ Raise("SerialException")
               /\ UNCHANGED <<link, io, ret>>
       ELSE /\ pc' = "done"
            /\ UNCHANGED <<link, io, ret, err>>
    /\ UNCHANGED <<args, fs, fs_listing, idx, block, fpos, t_start, out>>
    /\ UNCHANGED bench

\* if ACT_CONNECT_DEV: serial.Serial(...) and the 0x09 ping
connect ==
    /\ pc = "connect"
    /\ IF ACT_CONNECT_DEV
       THEN \/ /\ link' = "open"
               /\ io' = Append(io, Wr("ping", <<PING>>))
               /\ pc' = "wait_ready"
               /\ ret' = "firmware"
               /\ UNCHANGED err
            \/ /\ Raise("SerialException")
               /\ UNCHANGED <<link, io, ret>>
       ELSE /\ pc' = "done"
            /\ UNCHANGED <<link, io, ret, err>>
    /\ UNCHANGED <<args, fs, fs_listing, idx, block, fpos, t_start, out>>
    /\ UNCHANGED bench

\* faulty variant: any byte counts as the prompt
ReadyOutcome_AnyByte(result) ==
    IF Len(result) = 0 THEN "timeout" ELSE "ready"

\* faulty variant: a read that timed out returns to the caller
ReadyOutcome_TimeoutReturns(result) ==
    IF Len(result) = 0 THEN "ready"
    ELSE IF result # <<READY>> THEN "invalid"
    ELSE "ready"

\* the outcome of wait_ready() on the byte(s) device.read() returned
ReadyOutcome(result) ==
    IF Len(result) = 0 THEN "timeout"
    ELSE IF result # <<READY>> THEN "invalid"
    ELSE "ready"

wait_ready ==
    /\ pc = "wait_ready"
    /\ \E result \in ReadyReads :
          /\ io' = Append(io, Rd("wait_ready", 1, result))
          /\ CASE ReadyOutcome(result) = "timeout" ->
                    Exit("Timed out waiting for device to become ready")
               [] ReadyOutcome(result) = "invalid" ->
                    Exit("Invalid response (expected 0x3E)")
               [] OTHER -> pc' = ret /\ UNCHANGED err
    /\ UNCHANGED <<ret, args, link, fs, fs_listing, idx, block, fpos, t_start, out>>
    /\ UNCHANGED bench

\* device.write(b'v\n'), read_until(), wait_ready()
firmware ==
    /\ pc = "firmware"
    /\ \E line \in FirmwareLines :
          io' = io \o << Wr("v", CMD_V), Rd("v.line", -1, line) >>
    /\ pc' = "wait_ready"
    /\ ret' = AfterFirmware
    /\ UNCHANGED <<args, link, fs, fs_listing, idx, block, fpos, t_start, out, err>>
    /\ UNCHANGED bench

\* read_32le(): exit(1) unless 4 bytes came
Short32(data) == Len(data) # 4

\* if VERBOSE: device.write(b'I\n'), two read_32le(), wait_ready()
stats ==
    /\ pc = "stats"
    /\ \E total \in FourBytes({Small(4096)}), used \in FourBytes({Small(512)}) :
          IF Short32(total)
          THEN /\ io' = io \o << Wr("I", CMD_I), Rd("I.total", 4, total) >>
               /\ Exit("Incomplete data read")
               /\ UNCHANGED ret
          ELSE IF Short32(used)
          THEN /\ io' = io \o << Wr("I", CMD_I), Rd("I.total", 4, total), Rd("I.used", 4, used) >>
               /\ Exit("Incomplete data read")
               /\ UNCHANGED ret
          ELSE /\ io' = io \o << Wr("I", CMD_I), Rd("I.total", 4, total), Rd("I.used", 4, used) >>
               /\ pc' = "wait_ready"
               /\ ret' = "list_cmd"
               /\ UNCHANGED err
    /\ UNCHANGED <<args, link, fs, fs_listing, idx, block, fpos, t_start, out>>
    /\ UNCHANGED bench

\* device.write(b'L\n')
list_cmd ==
    /\ pc = "list_cmd"
    /\ io' = Append(io, Wr("L", CMD_L))
    /\ pc' = "list_entry"
    /\ UNCHANGED <<ret, args, link, fs, fs_listing, idx, block, fpos, t_start, out, err>>
    /\ UNCHANGED bench

\* faulty variant: the sentinel size alone ends the listing
IsTerminator_SizeOnly(size, path) == size = NOT_FOUND

\* the test that ends the listing loop
IsTerminator(size, path) == size = NOT_FOUND /\ Len(path) = 0

\* one pass of the listing loop; the device ends the listing after MaxEntries entries
list_entry ==
    /\ pc = "list_entry"
    /\ \E data \in FourBytes(ListSizes), raw \in PathReads :
          IF Short32(data)
          THEN /\ io' = Append(io, Rd("L.size", 4, data))
               /\ Exit("Incomplete data read")
               /\ UNCHANGED <<ret, fs_listing>>
          ELSE LET size == Unpack32(data)
                   path == DropLast(raw)
               IN  /\ EntriesSent >= MaxEntries => IsTerminator(size, path)
                   /\ io' = io \o << Rd("L.size", 4, data), Rd("L.path", -1, raw) >>
                   /\ IF IsTerminator(size, path)
                      THEN /\ pc' = "wait_ready"
                           /\ ret' = AfterListing
                           /\ UNCHANGED fs_listing
                      ELSE /\ fs_listing' = DictSet(fs_listing, path, size)
                           /\ UNCHANGED <<pc, ret>>
                   /\ UNCHANGED err
    /\ UNCHANGED <<args, link, fs, idx, block, fpos, t_start, out>>
    /\ UNCHANGED bench

\* if ACT_LIST_FS: the table; max() of an empty list raises ValueError
list_fs ==
    /\ pc = "list_fs"
    /\ IF Len(fs_listing) = 0
       THEN Raise("ValueError")
       ELSE pc' = AfterList /\ UNCHANGED err
    /\ UNCHANGED <<ret, args, link, io, fs, fs_listing, idx, block, fpos, t_start, out>>
    /\ UNCHANGED bench

\* a line printed about one file
Line(path, msg) == [path |-> path, msg |-> msg]

\* faulty variant: the dump loop is left after one file (break for continue)
DumpNext_Break(i) == AfterDump

\* where the dump loop goes after the file at position i
DumpNext(i) == IF i > Len(fs_listing) THEN AfterDump ELSE "dump_file"

\* if ACT_DUMP_FS: prepare_fs() empties FS_PATH, or exits when it is no directory
dump_start ==
    /\ pc = "dump_start"
    /\ \/ /\ fs' = <<>>
          /\ idx' = 1
          /\ pc' = DumpNext(1)
          /\ UNCHANGED err
       \/ /\ Exit("FS_PATH is not a directory")
          /\ UNCHANGED <<fs, idx>>
    /\ UNCHANGED <<ret, args, link, io, fs_listing, block, fpos, t_start, out>>
    /\ UNCHANGED bench

\* faulty variant: the checksum byte is read and not compared
DumpOutcome_NoVerify(size, size_bytes, listed, contents, checksum) ==
    IF size = NOT_FOUND THEN "does not exist"
    ELSE IF size = CANNOT_OPEN1 \/ size = CANNOT_OPEN2 THEN "cannot be opened"
    ELSE IF Len(checksum) = 0 THEN "IndexError"
    ELSE IF Len(contents) # AsInt(size) THEN "Incomplete data reception"
    ELSE "saved"

\* faulty variant: a size other than the listed one fails the file
DumpOutcome_SizeChangeFails(size, size_bytes, listed, contents, checksum) ==
    IF size = NOT_FOUND THEN "does not exist"
    ELSE IF size = CANNOT_OPEN1 \/ size = CANNOT_OPEN2 THEN "cannot be opened"
    ELSE IF Len(checksum) = 0 THEN "IndexError"
    ELSE IF size # listed THEN "File size changed"
    ELSE IF Len(contents) # AsInt(size) THEN "Incomplete data reception"
    ELSE IF calculate_checksum(<<size_bytes, contents>>) # checksum[1]
         THEN "Checksum verification failed"
    ELSE "saved"

\* how the dump loop treats one answer to R: (size, contents, checksum byte read)
DumpOutcome(size, size_bytes, listed, contents, checksum) ==
    IF size = NOT_FOUND THEN "does not exist"
    ELSE IF size = CANNOT_OPEN1 \/ size = CANNOT_OPEN2 THEN "cannot be opened"
    ELSE IF Len(checksum) = 0 THEN "IndexError"
    ELSE IF Len(contents) # AsInt(size) THEN "Incomplete data reception"
    ELSE IF calculate_checksum(<<size_bytes, contents>>) # checksum[1]
         THEN "Checksum verification failed"
    ELSE "saved"

\* faulty variant: the not-found sentinel is read like a size
NoContents_OnlyCannotOpen(size) == size \in {CANNOT_OPEN1, CANNOT_OPEN2}

\* sizes the dump loop reads no contents for
NoContents(size) == size \in {NOT_FOUND, CANNOT_OPEN1, CANNOT_OPEN2}

\* what device.read(size) can return: all of it, or nothing before the timeout
\* (the device holds no file of 64 KiB or more)
ContentReads(size) ==
    { Bytes(7, n) : n \in {0} \cup (IF size.hi = 0 THEN {size.lo} ELSE {}) }

\* what device.read() returns for the checksum of what was received
ChecksumReads(size_bytes, contents) ==
    LET c == calculate_checksum(<<size_bytes, contents>>)
    IN  { <<>>, <<c>>, <<(c + 1) % 256>> }

\* one pass of the dump loop, up to the wait_ready() that ends each branch
dump_file ==
    /\ pc = "dump_file"
    /\ LET dev_path == fs_listing[idx].path
           listed == fs_listing[idx].size
           rel == DropFirst(dev_path)
           cmd == Wr("R", CMD_R(dev_path))
       IN  IF rel = <<>>
           THEN /\ Raise("IsADirectoryError")
                /\ UNCHANGED <<ret, io, fs, idx, out>>
           ELSE \E size_bytes \in FourBytes(ReadSizes) :
                  IF Short32(size_bytes)
                  THEN /\ io' = io \o << cmd, Rd("R.size", 4, size_bytes) >>
                       /\ fs' = FsPut(fs, rel, <<>>)
                       /\ Exit("Incomplete data read")
                       /\ UNCHANGED <<ret, idx, out>>
                  ELSE LET size == Unpack32(size_bytes) IN
                       IF NoContents(size)
                       THEN /\ io' = io \o << cmd, Rd("R.size", 4, size_bytes) >>
                            /\ fs' = FsPut(fs, rel, <<>>)
                            /\ out' = Append(out, Line(dev_path,
                                         DumpOutcome(size, size_bytes, listed, <<>>, <<>>)))
                            /\ pc' = "wait_ready"
                            /\ ret' = DumpNext(idx + 1)
                            /\ idx' = idx + 1
                            /\ UNCHANGED err
                       ELSE \E contents \in ContentReads(size) :
                            \E checksum \in ChecksumReads(size_bytes, contents) :
                            LET outcome == DumpOutcome(size, size_bytes, listed, contents, checksum)
                                warned == IF size # listed
                                          THEN Append(out, Line(dev_path, "File size changed"))
                                          ELSE out
                            IN  /\ io' = io \o << cmd, Rd("R.size", 4, size_bytes),
                                                 Rd("R.contents", AsInt(size), contents),
                                                 Rd("R.checksum", 1, checksum) >>
                                /\ fs' = FsPut(fs, rel, IF outcome = "saved" THEN contents ELSE <<>>)
                                /\ IF outcome = "IndexError"
                                   THEN /\ Raise("IndexError")
                                        /\ out' = warned
                                        /\ UNCHANGED <<ret, idx>>
                                   ELSE /\ out' = IF outcome = "saved" THEN warned
                                                  ELSE Append(warned, Line(dev_path, outcome))
                                        /\ pc' = "wait_ready"
                                        /\ ret' = DumpNext(idx + 1)
                                        /\ idx' = idx + 1
                                        /\ UNCHANGED err
    /\ UNCHANGED <<args, link, fs_listing, block, fpos, t_start>>
    /\ UNCHANGED bench

\* where the upload loop goes after the file at position i of the walk
UploadNext(i) == IF i > Len(fs) THEN "close" ELSE "open_file"

\* the path sent for a local file: pc_path.removeprefix(FS_PATH)
DevPath(rel) == <<47>> \o rel

\* faulty variant: only 0x58 is a failure
WipeOutcome_ElseOk(result) ==
    IF result = ST_FAIL THEN "Directory deletion failed, aborting" ELSE "ok"

\* how the wipe status byte is treated
WipeOutcome(result) ==
    IF result = ST_FAIL THEN "Directory deletion failed, aborting"
    ELSE IF result # ST_OK THEN "Unexpected result, aborting"
    ELSE "ok"

\* if NO_REFORMAT: X:/ and its status byte, then the gate before the upload
wipe ==
    /\ pc = "format"
    /\ NO_REFORMAT
    /\ \E result \in WipeReads :
          /\ io' = io \o << Wr("X", CMD_WIPE), Rd("X.status", 1, result) >>
          /\ IF Len(result) = 0
             THEN /\ Raise("IndexError")
                  /\ UNCHANGED <<ret, idx>>
             ELSE IF WipeOutcome(result[1]) # "ok"
             THEN /\ Exit("Device was not reformatted successfully, exiting")
                  /\ UNCHANGED <<ret, idx>>
             ELSE /\ pc' = "wait_ready"
                  /\ ret' = UploadNext(1)
                  /\ idx' = 1
                  /\ UNCHANGED err
    /\ UNCHANGED <<args, link, fs, fs_listing, block, fpos, t_start, out>>
    /\ UNCHANGED bench

\* else: Z, and the timer of the decision wait starts
reformat ==
    /\ pc = "format"
    /\ ~NO_REFORMAT
    /\ io' = Append(io, Wr("Z", CMD_Z))
    /\ t_start' = 0
    /\ pc' = "await_decision"
    /\ UNCHANGED <<ret, args, link, fs, fs_listing, idx, block, fpos, out, err>>
    /\ UNCHANGED bench

\* faulty variant: a declined request is taken for a confirmation
DecisionOutcome_DeclineConfirms(result) ==
    IF result # ST_CONFIRM /\ result # ST_FAIL THEN "unexpected" ELSE "confirmed"

\* how the decision byte is treated
DecisionOutcome(result) ==
    IF result = ST_FAIL THEN "declined"
    ELSE IF result # ST_CONFIRM THEN "unexpected"
    ELSE "confirmed"

\* faulty variant: the timer does not advance over an empty read
await_decision_NoClock ==
    /\ pc = "await_decision"
    /\ t_start < REFORMAT_REQ_TIMEOUT + DEVICE_TIMEOUT
    /\ \E result \in DecisionReads :
          /\ io' = Append(io, Rd("Z.decision", 1, result))
          /\ IF Len(result) = 0
             THEN UNCHANGED <<pc, err, t_start>>
             ELSE CASE DecisionOutcome(result[1]) = "declined" ->
                         /\ Exit("Device was not reformatted successfully, exiting")
                         /\ UNCHANGED t_start
                    [] DecisionOutcome(result[1]) = "unexpected" ->
                         /\ Exit("Unexpected response for user decision")
                         /\ UNCHANGED t_start
                    [] OTHER ->
                         /\ pc' = "await_result"
                         /\ t_start' = 0
                         /\ UNCHANGED err
    /\ UNCHANGED <<ret, args, link, fs, fs_listing, idx, block, fpos, out>>
    /\ UNCHANGED bench

\* one device.read() of the decision loop; an empty read took DEVICE_TIMEOUT seconds
await_decision ==
    /\ pc = "await_decision"
    /\ t_start < REFORMAT_REQ_TIMEOUT + DEVICE_TIMEOUT
    /\ \E result \in DecisionReads :
          /\ io' = Append(io, Rd("Z.decision", 1, result))
          /\ IF Len(result) = 0
             THEN /\ t_start' = t_start + DEVICE_TIMEOUT
                  /\ UNCHANGED <<pc, err>>
             ELSE CASE DecisionOutcome(result[1]) = "declined" ->
                         /\ Exit("Device was not reformatted successfully, exiting")
                         /\ UNCHANGED t_start
                    [] DecisionOutcome(result[1]) = "unexpected" ->
                         /\ Exit("Unexpected response for user decision")
                         /\ UNCHANGED t_start
                    [] OTHER ->
                         /\ pc' = "await_result"
                         /\ t_start' = 0
                         /\ UNCHANGED err
    /\ UNCHANGED <<ret, args, link, fs, fs_listing, idx, block, fpos, out>>
    /\ UNCHANGED bench

\* the decision loop ran out of time with nothing read
decision_timeout ==
    /\ pc = "await_decision"
    /\ ~(t_start < REFORMAT_REQ_TIMEOUT + DEVICE_TIMEOUT)
    /\ Exit("Timed out waiting for device to transmit user decision")
    /\ UNCHANGED <<ret, args, link, io, fs, fs_listing, idx, block, fpos, t_start, out>>
    /\ UNCHANGED bench

\* faulty variant: only 0x58 is a failed reformat
ResultOutcome_ElseOk(result) ==
    IF result = ST_FAIL THEN "Device reformat failed" ELSE "ok"

\* how the reformat result byte is treated
ResultOutcome(result) ==
    IF result = ST_FAIL THEN "Device reformat failed"
    ELSE IF result # ST_OK THEN "Unexpected response for reformatting result"
    ELSE "ok"

\* one device.read() of the result loop
await_result ==
    /\ pc = "await_result"
    /\ t_start < REFORMAT_TIMEOUT + DEVICE_TIMEOUT
    /\ \E result \in ResultReads :
          /\ io' = Append(io, Rd("Z.result", 1, result))
          /\ IF Len(result) = 0
             THEN /\ t_start' = t_start + DEVICE_TIMEOUT
                  /\ UNCHANGED <<pc, ret, idx, err>>
             ELSE IF ResultOutcome(result[1]) # "ok"
             THEN /\ Exit(ResultOutcome(result[1]))
                  /\ UNCHANGED <<ret, idx, t_start>>
             ELSE /\ pc' = "wait_ready"
                  /\ ret' = UploadNext(1)
                  /\ idx' = 1
                  /\ UNCHANGED <<t_start, err>>
    /\ UNCHANGED <<args, link, fs, fs_listing, block, fpos, out>>
    /\ UNCHANGED bench

\* the result loop ran out of time with nothing read
result_timeout ==
    /\ pc = "await_result"
    /\ ~(t_start < REFORMAT_TIMEOUT + DEVICE_TIMEOUT)
    /\ Exit("Timed out waiting for device to finish reformatting")
    /\ UNCHANGED <<ret, args, link, io, fs, fs_listing, idx, block, fpos, t_start, out>>
    /\ UNCHANGED bench

\* faulty variant: the reserved bytes must be there and be zero
OpenOutcome_WholeAnswer(result) ==
    IF Len(result) = 0 THEN "timeout"
    ELSE IF result = <<ST_FAIL, 0, 0, 0, 0>> THEN "skip"
    ELSE IF result # <<ST_OK, 0, 0, 0, 0>> THEN "unexpected"
    ELSE "send"

\* how the answer to W: is treated: only result[0] is looked at
OpenOutcome(result) ==
    IF Len(result) = 0 THEN "timeout"
    ELSE IF result[1] = ST_FAIL THEN "skip"
    ELSE IF result[1] # ST_OK THEN "unexpected"
    ELSE "send"

\* what follows a refused open: the next pass of the walk, no wait_ready()
AfterRefusedOpen(i) == UploadNext(i + 1)

\* step 1 of one file: W:<dev_path> and device.read(5)
open_file ==
    /\ pc = "open_file"
    /\ LET dev_path == DevPath(fs[idx].rel) IN
       \E result \in FiveBytes :
          /\ io' = io \o << Wr("W", CMD_W(dev_path)), Rd("W.status", 5, result) >>
          /\ CASE OpenOutcome(result) = "timeout" ->
                    /\ Exit("Timed out waiting for device to create/open file")
                    /\ UNCHANGED <<idx, fpos, out>>
               [] OpenOutcome(result) = "skip" ->
                    /\ out' = Append(out, Line(dev_path, "Device cannot create/open file - skipping"))
                    /\ pc' = AfterRefusedOpen(idx)
                    /\ idx' = idx + 1
                    /\ UNCHANGED <<fpos, err>>
               [] OpenOutcome(result) = "unexpected" ->
                    /\ Exit("Unexpected response for file write command")
                    /\ UNCHANGED <<idx, fpos, out>>
               [] OTHER ->
                    /\ fpos' = 0
                    /\ pc' = "read_block"
                    /\ UNCHANGED <<idx, out, err>>
    /\ UNCHANGED <<ret, args, link, fs, fs_listing, block, t_start>>
    /\ UNCHANGED bench

\* block = f.read(256); an empty block ends the file: 0x46 and wait_ready()
read_block ==
    /\ pc = "read_block"
    /\ LET b == ReadBlock(fs[idx].data, fpos) IN
       IF Len(b) = 0
       THEN /\ io' = Append(io, Wr("eof", <<EOF_MARK>>))
            /\ pc' = "wait_ready"
            /\ ret' = UploadNext(idx + 1)
            /\ idx' = idx + 1
            /\ UNCHANGED <<block, fpos>>
       ELSE /\ block' = b
            /\ fpos' = fpos + Len(b)
            /\ pc' = "send_block"
            /\ UNCHANGED <<io, ret, idx>>
    /\ UNCHANGED <<args, link, fs, fs_listing, t_start, out, err>>
    /\ UNCHANGED bench

\* faulty variant: the length byte carries the length, not the length - 1
Frame_LenByte(b) ==
    LET block_sz == << Len(b) >>
    IN  << Wr("mark", <<BLOCK_MARK>>), Wr("len", block_sz), Wr("payload", b),
           Wr("cksum", << calculate_checksum(<< <<BLOCK_MARK>>, block_sz, b >>) >>) >>

\* the four writes of one block frame
Frame(b) ==
    LET block_sz == << Len(b) - 1 >>
    IN  << Wr("mark", <<BLOCK_MARK>>), Wr("len", block_sz), Wr("payload", b),
           Wr("cksum", << calculate_checksum(<< <<BLOCK_MARK>>, block_sz, b >>) >>) >>

\* faulty variant: a failed write is passed over like an accepted block
AckOutcome_FailIgnored(result) ==
    IF result = ST_RESEND THEN "resend"
    ELSE IF result # ST_OK /\ result # ST_FAIL THEN "Unexpected response to data block writing"
    ELSE "accepted"

\* faulty variant: every byte that is neither 0x21 nor 0x58 counts as success
AckOutcome_ElseAccepted(result) ==
    IF result = ST_RESEND THEN "resend"
    ELSE IF result = ST_FAIL THEN "Unable to write data to file"
    ELSE "accepted"

\* faulty variant: a block answered 0x21 counts as written
AckOutcome_ResendAccepted(result) ==
    IF result = ST_FAIL THEN "Unable to write data to file"
    ELSE IF result # ST_OK /\ result # ST_RESEND THEN "Unexpected response to data block writing"
    ELSE "accepted"

\* how the acknowledgment of a block is treated
AckOutcome(result) ==
    IF result = ST_RESEND THEN "resend"
    ELSE IF result = ST_FAIL THEN "Unable to write data to file"
    ELSE IF result # ST_OK THEN "Unexpected response to data block writing"
    ELSE "accepted"

\* faulty variant: a rejected block is given up, the script exits
AckNext_GiveUp(outcome) ==
    CASE outcome = "accepted" -> "read_block"
      [] OTHER -> "exit"

\* faulty variant: a rejected block is dropped and the next one is read
AckNext_SkipRejected(outcome) ==
    CASE outcome = "resend" -> "read_block"
      [] outcome = "accepted" -> "read_block"
      [] OTHER -> "exit"

\* where the inner loop goes on an acknowledgment: continue, break, or exit(1)
AckNext(outcome) ==
    CASE outcome = "resend" -> "send_block"
      [] outcome = "accepted" -> "read_block"
      [] OTHER -> "exit"

\* answers to a block frame: no status byte, or a status byte followed by the
\* 4 bytes of an offset (the file position, or 0) or by a short read
AckAnswers(pos) ==
    { [result |-> <<>>, offset |-> <<>>] }
    \cup { [result |-> <<ST_OK>>, offset |-> o] : o \in FourBytes({Small(0), Small(pos)}) }
    \cup { [result |-> <<b>>, offset |-> Pack32(Small(pos))] : b \in {ST_RESEND, ST_FAIL, JUNK} }

\* one pass of the inner loop: the frame, the status byte, the offset;
\* the device answers 0x21 at most MaxResend times in a session
send_block ==
    /\ pc = "send_block"
    /\ \E ack \in AckAnswers(fpos) :
          LET result == ack.result
              offset == ack.offset
          IN  IF Len(result) = 0
              THEN /\ io' = io \o Frame(block) \o << Rd("ack", 1, result) >>
                   /\ Exit("Timed out waiting for device to write")
              ELSE IF Short32(offset)
              THEN /\ io' = io \o Frame(block) \o << Rd("ack", 1, result), Rd("ack.offset", 4, offset) >>
                   /\ Exit("Incomplete data read")
              ELSE /\ result = <<ST_RESEND>> => ResendsSent < MaxResend
                   /\ io' = io \o Frame(block) \o << Rd("ack", 1, result), Rd("ack.offset", 4, offset) >>
                   /\ IF AckNext(AckOutcome(result[1])) = "exit"
                      THEN Exit(AckOutcome(result[1]))
                      ELSE pc' = AckNext(AckOutcome(result[1])) /\ UNCHANGED err
    /\ UNCHANGED <<ret, args, link, fs, fs_listing, idx, block, fpos, t_start, out>>
    /\ UNCHANGED bench

\* device.close()
close ==
    /\ pc = "close"
    /\ link' = "closed"
    /\ pc' = "done"
    /\ UNCHANGED <<ret, args, io, fs, fs_listing, idx, block, fpos, t_start, out, err>>
    /\ UNCHANGED bench

Next ==
    \/ generate_fs \/ skip_generate \/ connect \/ wait_ready \/ firmware
    \/ stats \/ list_cmd \/ list_entry \/ list_fs
    \/ dump_start \/ dump_file
    \/ wipe \/ reformat \/ await_decision \/ decision_timeout
    \/ await_result \/ result_timeout
    \/ open_file \/ read_block \/ send_block
    \/ close

Spec == Init /\ [][Next]_vars

(***************************************************************************)
(* Reading the io log.                                                     *)
(***************************************************************************)
Commands == {"v", "I", "L", "R", "X", "Z", "W"}
IsCommand(e) == e.op = "w" /\ e.at \in Commands
IsPrompt(e) == e.op = "r" /\ e.at = "wait_ready" /\ e.data = <<READY>>
IsWrite(e) == e.op = "w"
UploadWrites == {"W", "mark", "len", "payload", "cksum", "eof"}
Ended == pc \in {"exit", "crash", "done"}
ReadyTimeout == "Timed out waiting for device to become ready"
ReadyInvalid == "Invalid response (expected 0x3E)"

(***************************************************************************)
(* C1: one command in flight.  Whenever a command (v, I, L, R:, X:, Z, W:) *)
(* is written, the ready prompt 0x3E has been read by wait_ready() since   *)
(* the previous write to the link (the previous command, its frames or its *)
(* end-of-file byte), the W: after a refused open included.                *)
(***************************************************************************)
C1_OneCommandInFlight ==
    \A j \in DOMAIN io :
        IsCommand(io[j]) =>
            \E k \in 1..(j - 1) :
                /\ IsPrompt(io[k])
                /\ \A m \in (k + 1)..(j - 1) : ~IsWrite(io[m])

(***************************************************************************)
(* C2: wait_ready() reads exactly one byte; no byte ends the script with   *)
(* the timeout message, a byte other than 0x3E ends it with the invalid    *)
(* response message, and only 0x3E returns to the caller; after either     *)
(* fatal case nothing more is written: the read is the last io event.      *)
(***************************************************************************)
C2_AwaitReadyStep ==
    pc = "wait_ready" =>
        /\ Len(io') = Len(io) + 1
        /\ SubSeq(io', 1, Len(io)) = io
        /\ LET e == io'[Len(io')] IN
              /\ e.op = "r" /\ e.at = "wait_ready" /\ e.n = 1 /\ Len(e.data) <= 1
              /\ e.data = <<>> => pc' = "exit" /\ err' = ReadyTimeout
              /\ (e.data # <<>> /\ e.data # <<READY>>) => pc' = "exit" /\ err' = ReadyInvalid
              /\ e.data = <<READY>> => pc' = ret /\ err' = "" /\ pc' # "exit"

C2_FatalIsLast ==
    err \in {ReadyTimeout, ReadyInvalid} =>
        /\ pc = "exit"
        /\ io # <<>>
        /\ io[Len(io)].op = "r" /\ io[Len(io)].at = "wait_ready"
        /\ io[Len(io)].data # <<READY>>
        /\ (err = ReadyTimeout) = (io[Len(io)].data = <<>>)

C2_AwaitReady == [][C2_AwaitReadyStep]_vars /\ [][C2_FatalIsLast']_vars

\* a prompt was read and returned, and a later wait_ready() got another byte
C2_Witness ==
    /\ pc = "exit" /\ err = ReadyInvalid
    /\ \E k \in DOMAIN io : IsPrompt(io[k])

(***************************************************************************)
(* Block frames in the io log: a frame is the four writes starting at a    *)
(* "mark" event, its acknowledgment the two reads after them.              *)
(***************************************************************************)
Marks == { p \in DOMAIN io : io[p].at = "mark" }
FrameAt(p) == SubSeq(io, p, p + 3)
PayloadAt(p) == io[p + 2].data
HasAck(p) == p + 5 <= Len(io) /\ Len(io[p + 5].data) = 4
AckAt(p) == io[p + 4].data
WriteFailed == "Unable to write data to file"

\* the W: command a frame or end-of-file byte at p belongs to
OpenOf(p) == CHOOSE w \in 1..p : io[w].at = "W" /\ \A x \in (w + 1)..p : io[x].at # "W"

\* the local file a W: command at w names
FileOf(w) == CHOOSE i \in DOMAIN fs : CMD_W(DevPath(fs[i].rel)) = io[w].data

C4_ResendIdentical ==
    \A p \in Marks :
        (HasAck(p) /\ AckAt(p) = <<ST_RESEND>>) =>
            IF Len(io) = p + 5
            THEN /\ pc = "send_block"
                 /\ block = PayloadAt(p)
                 /\ ReadBlock(fs[idx].data, fpos - Len(block)) = block
            ELSE /\ p + 6 \in Marks
                 /\ FrameAt(p + 6) = FrameAt(p)

C4_OneRetransmission ==
    \A p \in Marks :
        ( /\ io[p - 1].at = "W.status"
          /\ p + 12 \in Marks
          /\ AckAt(p) = <<ST_RESEND>>
          /\ AckAt(p + 6) = <<ST_OK>> ) =>
            LET data == fs[FileOf(OpenOf(p))].data IN
                /\ PayloadAt(p) = SubSeq(data, 1, BLOCK_LEN)
                /\ PayloadAt(p + 6) = SubSeq(data, 1, BLOCK_LEN)
                /\ PayloadAt(p + 12) = SubSeq(data, BLOCK_LEN + 1, Len(data))

C4_Retransmission == C4_ResendIdentical /\ C4_OneRetransmission

\* the first block was rejected once, resent, accepted, and the second block sent
C4_Witness ==
    \E p \in Marks :
        /\ io[p - 1].at = "W.status"
        /\ p + 12 \in Marks
        /\ AckAt(p) = <<ST_RESEND>>
        /\ AckAt(p + 6) = <<ST_OK>>

(***************************************************************************)
(* C5: when the end-of-file byte of a file of size S is written and none   *)
(* of its blocks was rejected, ceil(S/256) frames were sent for it (none   *)
(* when S = 0), every frame but the last carries 256 bytes, and the last   *)
(* carries S mod 256 bytes, or 256 when S is a nonzero multiple of 256.    *)
(***************************************************************************)
Eofs == { q \in DOMAIN io : io[q].at = "eof" }
FramesOf(w, q) == { p \in Marks : w < p /\ p < q }
LastLen(S) == IF S % BLOCK_LEN = 0 THEN BLOCK_LEN ELSE S % BLOCK_LEN

C5_BlockCount ==
    \A q \in Eofs :
        LET w == OpenOf(q)
            S == Len(fs[FileOf(w)].data)
            F == FramesOf(w, q)
        IN  (\A p \in F : AckAt(p) # <<ST_RESEND>>) =>
                /\ Cardinality(F) = (S + BLOCK_LEN - 1) \div BLOCK_LEN
                /\ S = 0 => F = {}
                /\ \A p \in F :
                      /\ Len(PayloadAt(p)) =
                            IF \E p2 \in F : p2 > p THEN BLOCK_LEN ELSE LastLen(S)
                      /\ io[p + 1].data = << Len(PayloadAt(p)) - 1 >>

\* a file of 257 bytes went out in two frames, none rejected
C5_Witness ==
    \E q \in Eofs :
        /\ Len(fs[FileOf(OpenOf(q))].data) = BLOCK_LEN + 1
        /\ Cardinality(FramesOf(OpenOf(q), q)) = 2
        /\ \A p \in FramesOf(OpenOf(q), q) : AckAt(p) # <<ST_RESEND>>

(***************************************************************************)
(* C6: once the reformat decision is Declined (0x58), or no decision byte  *)
(* came within the window, the upload phase is over: the script has ended  *)
(* and no W: command, block frame or end-of-file byte is in the io log.    *)
(***************************************************************************)
Declined == \E k \in DOMAIN io : io[k].at = "Z.decision" /\ io[k].data = <<ST_FAIL>>
DecisionTimedOut == err = "Timed out waiting for device to transmit user decision"
NoUploadWrites == \A k \in DOMAIN io : ~(io[k].op = "w" /\ io[k].at \in UploadWrites)

C6_DeclinedNoUpload ==
    (Declined \/ DecisionTimedOut) => (pc = "exit" /\ NoUploadWrites)

\* the device declined after one empty poll of the decision loop
C6_Witness ==
    /\ Declined
    /\ \E k \in DOMAIN io : io[k].at = "Z.decision" /\ io[k].data = <<>>

(***************************************************************************)
(* C7 as claimed: every fatal error closes the serial link before the      *)
(* session terminates: the script is never ended by exit(1) with the link  *)
(* still open.                                                             *)
(***************************************************************************)
C7_FatalClosesLink == pc = "exit" => link # "open"

(***************************************************************************)
(* The listing as the device sent it: the entries read before the          *)
(* terminator, in the order received.                                      *)
(***************************************************************************)
EntryReads == { k \in DOMAIN io : io[k].at = "L.path" }
SizeOfEntry(k) == Unpack32(io[k - 1].data)
PathOfEntry(k) == DropLast(io[k].data)
IsLast(k) == SizeOfEntry(k) = NOT_FOUND /\ PathOfEntry(k) = <<>>
Stored == { k \in EntryReads : ~IsLast(k) }
Nth(S, n) == CHOOSE x \in S : Cardinality({ y \in S : y <= x }) = n
Received ==
    [ n \in 1..Cardinality(Stored) |->
        [path |-> PathOfEntry(Nth(Stored, n)), size |-> SizeOfEntry(Nth(Stored, n))] ]

C9_ListingAsSent == fs_listing = Received

(***************************************************************************)
(* C9 amended: the listing holds one entry per distinct path the device    *)
(* sent, in the order in which the paths were first sent, each with the    *)
(* size sent last for it; it is the received sequence itself whenever the  *)
(* device sent no path twice.                                              *)
(***************************************************************************)
FirstIn(R, path) ==
    CHOOSE j \in DOMAIN R : R[j].path = path /\ \A x \in 1..(j - 1) : R[x].path # path
LastIn(R, path) ==
    CHOOSE j \in DOMAIN R : R[j].path = path /\ \A x \in (j + 1)..Len(R) : R[x].path # path
SentTwice(R) == \E a, b \in DOMAIN R : a # b /\ R[a].path = R[b].path

C9_ListingByPath ==
    LET R == Received IN
    /\ \A j \in DOMAIN R :
          \E i \in DOMAIN fs_listing : fs_listing[i].path = R[j].path
    /\ \A i \in DOMAIN fs_listing :
          /\ \E j \in DOMAIN R : R[j].path = fs_listing[i].path
          /\ fs_listing[i].size = R[LastIn(R, fs_listing[i].path)].size
    /\ \A a, b \in DOMAIN fs_listing :
          a < b => /\ fs_listing[a].path # fs_listing[b].path
                   /\ FirstIn(R, fs_listing[a].path) < FirstIn(R, fs_listing[b].path)
    /\ ~SentTwice(R) => fs_listing = R

\* the device sent one path twice with two sizes: one entry, the later size
C9_Witness ==
    LET R == Received IN
    /\ pc = "wait_ready"
    /\ Len(R) = 2
    /\ R[1].path = R[2].path
    /\ R[1].size # R[2].size
    /\ fs_listing = << R[2] >>

(***************************************************************************)
(* C10: when the device answers R:<path> with size 0xFFFFFFFF the client   *)
(* reports that the path does not exist and reads neither contents nor a   *)
(* checksum: the read that follows the 4 size bytes is wait_ready()'s one  *)
(* byte.                                                                   *)
(***************************************************************************)
NotFoundReads == { k \in DOMAIN io : io[k].at = "R.size" /\ io[k].data = Pack32(NOT_FOUND) }
PathOfRead(k) == SubSeq(io[k - 1].data, 3, Len(io[k - 1].data) - 1)

C10_NotFoundReadsNothing ==
    \A k \in NotFoundReads :
        /\ \E i \in DOMAIN out : out[i] = Line(PathOfRead(k), "does not exist")
        /\ IF k = Len(io)
           THEN pc = "wait_ready"
           ELSE /\ io[k + 1].op = "r" /\ io[k + 1].at = "wait_ready" /\ io[k + 1].n = 1
                /\ \A m \in (k + 1)..Len(io) :
                      io[m].at \in {"R.contents", "R.checksum"} =>
                          \E c \in (k + 1)..m : io[c].at = "R"

\* a path reported as not found, and the dump went on to the next path
C10_Witness ==
    \E k \in NotFoundReads : \E c \in (k + 1)..Len(io) : io[c].at = "R"

(***************************************************************************)
(* C11: a per-file download error (size 0xFFFFFFFF, 0xFFFFFFFE or          *)
(* 0xFFFFFFFD, or a checksum mismatch) does not end the dump: the next     *)
(* read is wait_ready()'s, and after the prompt the next write is R: for   *)
(* the next listed path (unless the local file of that path cannot be      *)
(* created, which is fatal). The n-th R: names the n-th listed path, and a *)
(* dump session that ends without fatal error has sent exactly one R: for  *)
(* every listed path.                                                      *)
(***************************************************************************)
ReadCmds == { k \in DOMAIN io : io[k].op = "w" /\ io[k].at = "R" }
OrdinalOf(k) == Cardinality({ j \in ReadCmds : j <= k })
SizeAt(k) == Unpack32(io[k + 1].data)
Answered(k) == k + 1 <= Len(io) /\ Len(io[k + 1].data) = 4
Sentinel(k) == Answered(k) /\ SizeAt(k) \in {NOT_FOUND, CANNOT_OPEN1, CANNOT_OPEN2}
Complete(k) ==
    /\ Answered(k) /\ ~Sentinel(k) /\ k + 3 <= Len(io)
    /\ Len(io[k + 2].data) = AsInt(SizeAt(k))
    /\ Len(io[k + 3].data) = 1
Mismatch(k) ==
    Complete(k) /\ io[k + 3].data[1] # calculate_checksum(<<io[k + 1].data, io[k + 2].data>>)
\* the last read of the answer to the R: at k
AnswerEnd(k) == IF Sentinel(k) THEN k + 1 ELSE k + 3

C11_DumpGoesOn ==
    /\ \A k \in ReadCmds :
          /\ OrdinalOf(k) <= Len(fs_listing)
          /\ io[k].data = CMD_R(fs_listing[OrdinalOf(k)].path)
          /\ Sentinel(k) \/ Mismatch(k) =>
                LET e == AnswerEnd(k)
                    n == OrdinalOf(k)
                IN  IF e = Len(io)
                    THEN pc = "wait_ready"
                    ELSE /\ io[e + 1].op = "r" /\ io[e + 1].at = "wait_ready"
                         /\ io[e + 1].data = <<READY>> /\ n < Len(fs_listing) =>
                               IF e + 1 = Len(io)
                               THEN /\ idx = n + 1
                                    /\ \/ pc = "dump_file"
                                       \/ pc = "crash" /\ err = "IsADirectoryError"
                               ELSE io[e + 2] = Wr("R", CMD_R(fs_listing[n + 1].path))
    /\ pc = "done" /\ args.dump_files =>
          \A i \in DOMAIN fs_listing :
              Cardinality({ k \in ReadCmds : io[k].data = CMD_R(fs_listing[i].path) }) = 1

\* a dump of two listed paths that ended well: the first did not exist, the
\* second failed its checksum
C11_Witness ==
    /\ pc = "done"
    /\ Len(fs_listing) = 2
    /\ \E k1, k2 \in ReadCmds :
          /\ k1 < k2
          /\ Sentinel(k1) /\ SizeAt(k1) = NOT_FOUND
          /\ Mismatch(k2)

(***************************************************************************)
(* C12: the local file of a dumped path holds the received contents only   *)
(* if exactly `size` content bytes were received and the checksum byte     *)
(* read equals calculate_checksum(size_bytes, contents); in every other    *)
(* case, a checksum mismatch included, none of the received bytes is in    *)
(* the file.                                                               *)
(***************************************************************************)
LocalData(rel) == (CHOOSE f \in { fs[i] : i \in DOMAIN fs } : f.rel = rel).data
HasLocal(rel) == \E i \in DOMAIN fs : fs[i].rel = rel
Verified(k) == Complete(k) /\ ~Mismatch(k)

C12_WrittenOnlyIfVerified ==
    \A k \in ReadCmds :
        LET rel == DropFirst(PathOfRead(k + 1)) IN
        /\ HasLocal(rel)
        /\ LocalData(rel) # <<>> => Verified(k)
        /\ Verified(k) => LocalData(rel) = io[k + 2].data
        /\ Mismatch(k) => LocalData(rel) = <<>>

\* one byte arrived with a wrong checksum and was discarded; another path's
\* byte was verified and written
C12_Witness ==
    \E k1, k2 \in ReadCmds :
        /\ Mismatch(k1) /\ Len(io[k1 + 2].data) = 1
        /\ LocalData(DropFirst(PathOfRead(k1 + 1))) = <<>>
        /\ Verified(k2) /\ Len(io[k2 + 2].data) = 1
        /\ LocalData(DropFirst(PathOfRead(k2 + 1))) = io[k2 + 2].data

(***************************************************************************)
(* C15: the first byte of the answer to W:<path> decides alone, whatever   *)
(* follows it: after 0x40 the block loop starts (the next write is a block *)
(* marker or the end-of-file byte); after 0x58 the file is reported as     *)
(* skipped and the next write, if any, is W: for the next file of the      *)
(* tree, with no frame and no 0x46 in between; after any other byte the    *)
(* script has exited on the unexpected response and wrote nothing more.    *)
(***************************************************************************)
OpenAnswers == { k \in DOMAIN io : io[k].at = "W.status" /\ Len(io[k].data) > 0 }
SkipLine(w) == Line(SubSeq(io[w].data, 3, Len(io[w].data) - 1),
                    "Device cannot create/open file - skipping")

C15_FirstByteDecides ==
    \A k \in OpenAnswers :
        LET first == io[k].data[1]
            i == FileOf(k - 1)
        IN  CASE first = ST_OK ->
                   IF k = Len(io)
                   THEN pc \in {"read_block", "send_block"} /\ idx = i
                   ELSE io[k + 1].op = "w" /\ io[k + 1].at \in {"mark", "eof"}
              [] first = ST_FAIL ->
                   /\ \E n \in DOMAIN out : out[n] = SkipLine(k - 1)
                   /\ IF k = Len(io)
                      THEN /\ pc \in {"open_file", "close", "done"}
                           /\ pc = "open_file" <=> i < Len(fs)
                      ELSE /\ i < Len(fs)
                           /\ io[k + 1] = Wr("W", CMD_W(DevPath(fs[i + 1].rel)))
              [] OTHER ->
                   /\ k = Len(io)
                   /\ pc = "exit"
                   /\ err = "Unexpected response for file write command"

\* a refused open followed by the next file's W:, and an open accepted on a
\* first byte of 0x40 with other bytes behind it
C15_Witness ==
    \E k1, k2 \in OpenAnswers :
        /\ io[k1].data[1] = ST_FAIL /\ k1 < Len(io) /\ io[k1 + 1].at = "W"
        /\ io[k2].data = <<ST_OK, ST_FAIL, 0, 0, 0>> /\ k2 < Len(io) /\ io[k2 + 1].at = "mark"

(***************************************************************************)
(* C16: the end-of-file byte 0x46 of a file is written only once its open  *)
(* was accepted and every block of it was acknowledged with 0x40: the      *)
(* payloads acknowledged with 0x40 since the W:, put end to end, are the   *)
(* file, and what precedes the 0x46 is the 0x40 acknowledgment of the last *)
(* block (the accepted open itself when the file is empty). 0x46 is        *)
(* written once per file, a later W: follows an accepted open only past    *)
(* its 0x46, and after 0x46 the client reads the ready prompt before it    *)
(* writes anything.                                                        *)
(***************************************************************************)
RECURSIVE AcceptedFrom(_, _)
AcceptedFrom(p, q) ==
    IF p >= q THEN <<>>
    ELSE IF io[p].at = "mark" /\ AckAt(p) = <<ST_OK>>
         THEN PayloadAt(p) \o AcceptedFrom(p + 4, q)
         ELSE AcceptedFrom(p + 1, q)
Opens == { w \in DOMAIN io : io[w].op = "w" /\ io[w].at = "W" }
Accepted(w) == w + 1 <= Len(io) /\ Len(io[w + 1].data) > 0 /\ io[w + 1].data[1] = ST_OK

C16_EofAfterAllBlocks ==
    /\ \A q \in Eofs :
          LET w == OpenOf(q)
              data == fs[FileOf(w)].data
          IN  /\ Accepted(w)
              /\ AcceptedFrom(w, q) = data
              /\ IF data = <<>>
                 THEN q = w + 2
                 ELSE io[q - 1].at = "ack.offset" /\ io[q - 2].data = <<ST_OK>>
              /\ IF q = Len(io)
                 THEN pc = "wait_ready"
                 ELSE io[q + 1].op = "r" /\ io[q + 1].at = "wait_ready"
    /\ LET E == Eofs
           W == Opens
       IN  /\ \A q1, q2 \in E : q1 < q2 => \E w \in W : q1 < w /\ w < q2
           /\ \A w \in W : Accepted(w) =>
                 /\ \A w2 \in W : w < w2 => \E q \in E : w < q /\ q < w2
                 /\ pc = "done" => \E q \in E : w < q

\* 0x46 after both blocks of the 257-byte file, one of them sent twice, and
\* 0x46 right after the accepted open of the empty file
C16_Witness ==
    \E q1, q2 \in Eofs :
        /\ Len(fs[FileOf(OpenOf(q1))].data) = BLOCK_LEN + 1
        /\ \E p \in FramesOf(OpenOf(q1), q1) : AckAt(p) = <<ST_RESEND>>
        /\ fs[FileOf(OpenOf(q2))].data = <<>>

(***************************************************************************)
(* C17: a block acknowledgment byte other than 0x40, 0x21 and 0x58 ends    *)
(* the session: the script has exited on the unexpected response, and      *)
(* after that byte it has only read (the 4 offset bytes) and written       *)
(* nothing: no block frame, no 0x46, no command.                           *)
(***************************************************************************)
UnknownAcks ==
    { k \in DOMAIN io : /\ io[k].at = "ack" /\ Len(io[k].data) = 1
                        /\ io[k].data[1] \notin {ST_OK, ST_RESEND, ST_FAIL} }

C17_UnknownAckIsFatal ==
    \A k \in UnknownAcks :
        /\ pc = "exit"
        /\ err \in {"Unexpected response to data block writing", "Incomplete data read"}
        /\ \A m \in (k + 1)..Len(io) : io[m].op = "r" /\ io[m].at = "ack.offset"

\* the second block of a file was answered with an unknown byte
C17_Witness ==
    \E k \in UnknownAcks :
        /\ err = "Unexpected response to data block writing"
        /\ \E p \in Marks : p < k - 4 /\ OpenOf(p) = OpenOf(k)

(***************************************************************************)
(* C18: in no-reformat mode the client writes X:/ and reads one status     *)
(* byte. After 0x40 it awaits the ready prompt and the upload starts (the  *)
(* next write, if any, is W: for the first file). After 0x58, and after    *)
(* any other byte, the script has exited at the gate of the upload phase   *)
(* and no W: command is in the io log.                                     *)
(***************************************************************************)
WipeAnswers == { k \in DOMAIN io : io[k].at = "X.status" /\ Len(io[k].data) = 1 }

C18_WipeStatus ==
    \A k \in WipeAnswers :
        /\ io[k - 1] = Wr("X", CMD_WIPE)
        /\ io[k].n = 1
        /\ IF io[k].data = <<ST_OK>>
           THEN IF k = Len(io)
                THEN pc = "wait_ready"
                ELSE /\ io[k + 1].op = "r" /\ io[k + 1].at = "wait_ready"
                     /\ k + 1 < Len(io) =>
                           io[k + 2] = Wr("W", CMD_W(DevPath(fs[1].rel)))
           ELSE /\ k = Len(io)
                /\ pc = "exit"
                /\ err = "Device was not reformatted successfully, exiting"
                /\ \A m \in DOMAIN io : io[m].at # "W"

\* the wipe was answered with a byte that is neither 0x40 nor 0x58
C18_Witness ==
    \E k \in WipeAnswers : io[k].data[1] \notin {ST_OK, ST_FAIL} /\ pc = "exit"

(***************************************************************************)
(* C19: in reformat mode, after Z, the first decision byte read decides:   *)
(* 0x2E is Confirmed and the client goes on to read the result, 0x58 is    *)
(* Declined and any other byte is an unexpected response, both ending the  *)
(* script; TimedOut is reported only when every read of the window         *)
(* REFORMAT_REQ_TIMEOUT + DEVICE_TIMEOUT came back empty. After Confirmed  *)
(* the first result byte decides: 0x40 is success and the client awaits    *)
(* the ready prompt, 0x58 and any other byte end the script, and so does a *)
(* window REFORMAT_TIMEOUT + DEVICE_TIMEOUT of empty reads. A W: command   *)
(* is written only after Z, 0x2E and 0x40.                                 *)
(***************************************************************************)
DecisionAnswers == { k \in DOMAIN io : io[k].at = "Z.decision" }
ResultAnswers == { k \in DOMAIN io : io[k].at = "Z.result" }
EmptyReads(S) == Cardinality({ k \in S : io[k].data = <<>> })

C19_Decision ==
    /\ \A k \in DecisionAnswers :
          /\ \E z \in 1..(k - 1) :
                io[z] = Wr("Z", CMD_Z) /\ \A m \in (z + 1)..k : m \in DecisionAnswers
          /\ \A m \in DecisionAnswers : m < k => io[m].data = <<>>
          /\ io[k].data # <<>> =>
                CASE io[k].data = <<ST_CONFIRM>> ->
                       IF k = Len(io) THEN pc = "await_result"
                                      ELSE io[k + 1].at = "Z.result"
                  [] io[k].data = <<ST_FAIL>> ->
                       /\ k = Len(io) /\ pc = "exit"
                       /\ err = "Device was not reformatted successfully, exiting"
                  [] OTHER ->
                       /\ k = Len(io) /\ pc = "exit"
                       /\ err = "Unexpected response for user decision"
    /\ err = "Timed out waiting for device to transmit user decision" <=>
          /\ pc = "exit"
          /\ DecisionAnswers # {}
          /\ \A k \in DecisionAnswers : io[k].data = <<>>
          /\ EmptyReads(DecisionAnswers) * DEVICE_TIMEOUT >=
                REFORMAT_REQ_TIMEOUT + DEVICE_TIMEOUT

C19_Result ==
    /\ \A k \in ResultAnswers :
          /\ \A m \in ResultAnswers : m < k => io[m].data = <<>>
          /\ io[k].data # <<>> =>
                CASE io[k].data = <<ST_OK>> ->
                       IF k = Len(io) THEN pc = "wait_ready"
                       ELSE io[k + 1].op = "r" /\ io[k + 1].at = "wait_ready"
                  [] io[k].data = <<ST_FAIL>> ->
                       /\ k = Len(io) /\ pc = "exit" /\ err = "Device reformat failed"
                  [] OTHER ->
                       /\ k = Len(io) /\ pc = "exit"
                       /\ err = "Unexpected response for reformatting result"
    /\ err = "Timed out waiting for device to finish reformatting" <=>
          /\ pc = "exit"
          /\ ResultAnswers # {}
          /\ \A k \in ResultAnswers : io[k].data = <<>>
          /\ EmptyReads(ResultAnswers) * DEVICE_TIMEOUT >= REFORMAT_TIMEOUT + DEVICE_TIMEOUT

C19_UploadOnlyOnSuccess ==
    \A w \in Opens :
        ~args.no_format =>
            \E d \in DecisionAnswers : \E r \in ResultAnswers :
                d < r /\ r < w /\ io[d].data = <<ST_CONFIRM>> /\ io[r].data = <<ST_OK>>

C19_Reformat == C19_Decision /\ C19_Result /\ C19_UploadOnlyOnSuccess

\* the request was confirmed after an empty read, and the reformat then
\* answered with a byte that is neither 0x40 nor 0x58
C19_Witness ==
    \E d \in DecisionAnswers : \E r \in ResultAnswers :
        /\ io[d].data = <<ST_CONFIRM>>
        /\ EmptyReads(DecisionAnswers) = 1
        /\ Len(io[r].data) = 1 /\ io[r].data[1] \notin {ST_OK, ST_FAIL}
        /\ pc = "exit"

(***************************************************************************)
(* C20: wipe and reformat exclude each other. X:/ is written only in an    *)
(* upload session with the no-reformat flag, Z only in an upload session   *)
(* without it, each at most once and never both; every W: command comes    *)
(* after the one that was written, and an upload session that reached the  *)
(* upload loop, or its end, has written exactly one of the two.            *)
(***************************************************************************)
WipeCmds == { k \in DOMAIN io : io[k].op = "w" /\ io[k].at = "X" }
ReformatCmds == { k \in DOMAIN io : io[k].op = "w" /\ io[k].at = "Z" }

C20_WipeOrReformat ==
    LET X == WipeCmds
        Z == ReformatCmds
        W == Opens
    IN  /\ Cardinality(X) + Cardinality(Z) <= 1
        /\ X # {} => ACT_UPLOAD /\ args.no_format
        /\ Z # {} => ACT_UPLOAD /\ ~args.no_format
        /\ \A k \in X : io[k].data = CMD_WIPE
        /\ \A k \in Z : io[k].data = CMD_Z
        /\ W # {} => \E k \in X \cup Z : \A w \in W : k < w
        /\ ACT_UPLOAD /\ pc \in {"open_file", "read_block", "send_block", "done"} =>
              Cardinality(X \cup Z) = 1

\* an upload session with the no-reformat flag ended: X:/ once, then W:
C20_Witness ==
    /\ pc = "done"
    /\ args.no_format
    /\ \E k \in WipeCmds : \E w \in Opens : k < w

(***************************************************************************)
(* Bench of calculate_checksum: it is called on a byte sequence cut into   *)
(* ranges, and then once more on the same bytes cut another way, the       *)
(* result compared with the first as the dump loop compares it with the    *)
(* checksum byte received.                                                 *)
(***************************************************************************)
SampleBytes == {0, 1, 128, 255}
ByteSeqs == UNION { [1..n -> SampleBytes] : n \in 0..MaxLen }

\* the ways of passing b: as one array, or as three ranges cut at c1 <= c2
Splits(b) ==
    { <<b>> } \cup
    { << SubSeq(b, 1, c[1]), SubSeq(b, c[1] + 1, c[2]), SubSeq(b, c[2] + 1, Len(b)) >> :
         c \in { d \in (0..Len(b)) \X (0..Len(b)) : d[1] <= d[2] } }

RECURSIVE Flatten(_)
Flatten(arrays) == IF arrays = <<>> THEN <<>> ELSE Head(arrays) \o Flatten(Tail(arrays))

\* no session runs on a bench
SessionIdle ==
    /\ ret = ""
    /\ args = Flags(FALSE, FALSE, FALSE, FALSE, FALSE, FALSE)
    /\ link = "none"
    /\ io = <<>>
    /\ fs = <<>>
    /\ fs_listing = <<>>
    /\ idx = 0
    /\ block = <<>>
    /\ fpos = 0
    /\ t_start = 0
    /\ out = <<>>
    /\ err = ""

ChecksumInit ==
    /\ SessionIdle
    /\ pc = "call"
    /\ given \in UNION { Splits(b) : b \in ByteSeqs }
    /\ returned = 0
    /\ dev = <<>>
    /\ origin = <<>>
    /\ MenuIdle
    /\ GtfsIdle

\* checksum = calculate_checksum(...)
checksum_call ==
    /\ pc = "call"
    /\ returned' = calculate_checksum(given)
    /\ pc' = "returned"
    /\ UNCHANGED <<ret, args, link, io, fs, fs_listing, idx, block, fpos, t_start, out, err>>
    /\ UNCHANGED <<given, dev, origin, menu, gtfs>>

\* if calculate_checksum(...) != checksum, over the same bytes
checksum_verify ==
    /\ pc = "returned"
    /\ given' \in Splits(Flatten(given))
    /\ pc' = IF calculate_checksum(given') # returned THEN "mismatch" ELSE "verified"
    /\ UNCHANGED <<ret, args, link, io, fs, fs_listing, idx, block, fpos, t_start, out, err>>
    /\ UNCHANGED <<returned, dev, origin, menu, gtfs>>

ChecksumNext == checksum_call \/ checksum_verify

ChecksumSpec == ChecksumInit /\ [][ChecksumNext]_vars

(***************************************************************************)
(* C13: for every byte sequence b, however it is cut into ranges,          *)
(* calculate_checksum returns a value c in 0..255 with                     *)
(* (sum(b) + c) mod 256 = 0, which is (0x100 - (sum(b) mod 256)) mod 256,  *)
(* and computing it again over the same bytes never gives a mismatch.      *)
(***************************************************************************)
C13_Checksum ==
    /\ pc \in {"returned", "verified", "mismatch"} =>
          LET total == Sum(Flatten(given)) IN
          /\ returned \in 0..255
          /\ (total + returned) % 256 = 0
          /\ returned = (256 - (total % 256)) % 256
    /\ pc # "mismatch"

\* three non-empty ranges whose bytes add up to a multiple of 256: checksum 0
C13_Witness ==
    /\ pc = "verified"
    /\ returned = 0
    /\ Sum(Flatten(given)) > 0
    /\ Len(given) = 3
    /\ \A i \in 1..3 : given[i] # <<>>

(***************************************************************************)
(* Bench of the round trip: the upload loop of one session and the listing *)
(* and dump loops of a second one, against a simulated device. The device  *)
(* creates the file a W: names, checks every frame by its own checksum     *)
(* rule, appends the payload of a frame it accepts, answers 0x21 to a      *)
(* frame it finds damaged (and, as line noise, to at most MaxResend good   *)
(* ones), lists its files with their sizes, serves a file as size,         *)
(* contents and checksum, and sends the ready prompt whenever it is        *)
(* awaited. The device starts empty (wiped).                               *)
(***************************************************************************)
\* the device's own rule: the byte that brings the sum to 0 modulo 256
DevChecksum(bytes) ==
    LET total == Sum(bytes) % 256
    IN  CHOOSE c \in 0..255 : (total + c) % 256 = 0

DevHas(d, path) == \E i \in DOMAIN d : d[i].path = path
DevFile(d, path) == (CHOOSE f \in { d[i] : i \in DOMAIN d } : f.path = path).data

\* W:<path> creates the file, or empties the one there is
DevCreate(d, path) ==
    IF DevHas(d, path)
    THEN [i \in DOMAIN d |-> IF d[i].path = path THEN [path |-> path, data |-> <<>>] ELSE d[i]]
    ELSE Append(d, [path |-> path, data |-> <<>>])

\* an accepted payload goes to the end of the file
DevAppend(d, path, payload) ==
    [i \in DOMAIN d |-> IF d[i].path = path
                        THEN [path |-> path, data |-> d[i].data \o payload] ELSE d[i]]

\* a frame as the device parses it: marker, length byte, payload, checksum
DevFrameOk(frame) ==
    /\ frame[1].data = <<BLOCK_MARK>>
    /\ frame[2].data = << Len(frame[3].data) - 1 >>
    /\ frame[4].data = << DevChecksum(<<BLOCK_MARK>> \o frame[2].data \o frame[3].data) >>

\* what the device sends in answer to R:<path>
DevServe(d, path) ==
    IF ~DevHas(d, path) THEN Pack32(NOT_FOUND)
    ELSE LET contents == DevFile(d, path)
             size_bytes == Pack32(Small(Len(contents)))
         IN  size_bytes \o contents \o << DevChecksum(size_bytes \o contents) >>

\* device.read(n) on what the device has sent: up to n bytes of it
Take(stream, n) == SubSeq(stream, 1, IF n < Len(stream) THEN n ELSE Len(stream))
Drop(stream, n) == SubSeq(stream, (IF n < Len(stream) THEN n ELSE Len(stream)) + 1, Len(stream))

Prompt == Rd("wait_ready", 1, <<READY>>)

RoundTripInit ==
    /\ pc = "open_file"
    /\ ret = ""
    /\ args = Flags(FALSE, TRUE, FALSE, FALSE, FALSE, TRUE)
    /\ link = "open"
    /\ io = <<>>
    /\ fs \in Trees \ { <<>> }
    /\ fs_listing = <<>>
    /\ idx = 1
    /\ block = <<>>
    /\ fpos = 0
    /\ t_start = 0
    /\ out = <<>>
    /\ err = ""
    /\ given = <<>>
    /\ returned = 0
    /\ dev = <<>>
    /\ origin = fs
    /\ MenuIdle
    /\ GtfsIdle

\* step 1 of one file: W:<dev_path>; the device creates the file and accepts
rt_open_file ==
    /\ pc = "open_file"
    /\ LET dev_path == DevPath(fs[idx].rel)
           result == <<ST_OK, 0, 0, 0, 0>>
       IN  /\ io' = io \o << Wr("W", CMD_W(dev_path)), Rd("W.status", 5, result) >>
           /\ dev' = DevCreate(dev, dev_path)
           /\ CASE OpenOutcome(result) = "send" ->
                     /\ fpos' = 0
                     /\ pc' = "read_block"
                     /\ UNCHANGED <<idx, out, err>>
                [] OpenOutcome(result) = "skip" ->
                     /\ out' = Append(out, Line(dev_path, "Device cannot create/open file - skipping"))
                     /\ pc' = AfterRefusedOpen(idx)
                     /\ idx' = idx + 1
                     /\ UNCHANGED <<fpos, err>>
                [] OTHER ->
                     /\ Exit("Unexpected response for file write command")
                     /\ UNCHANGED <<idx, fpos, out>>
    /\ UNCHANGED <<ret, args, link, fs, fs_listing, block, t_start>>
    /\ UNCHANGED <<given, returned, origin, menu, gtfs>>

\* block = f.read(256); an empty block ends the file: 0x46, and the prompt comes
rt_read_block ==
    /\ pc = "read_block"
    /\ LET b == ReadBlock(fs[idx].data, fpos) IN
       IF Len(b) = 0
       THEN /\ io' = io \o << Wr("eof", <<EOF_MARK>>), Prompt >>
            /\ pc' = UploadNext(idx + 1)
            /\ idx' = idx + 1
            /\ UNCHANGED <<block, fpos>>
       ELSE /\ block' = b
            /\ fpos' = fpos + Len(b)
            /\ pc' = "send_block"
            /\ UNCHANGED <<io, idx>>
    /\ UNCHANGED <<ret, args, link, fs, fs_listing, t_start, out, err>>
    /\ UNCHANGED bench

\* one pass of the inner loop: the frame goes out, the device checks it and
\* answers with a status byte and the length of the file
rt_send_block ==
    /\ pc = "send_block"
    /\ \E noise \in BOOLEAN :
          LET frame == Frame(block)
              dev_path == DevPath(fs[idx].rel)
              good == DevFrameOk(frame)
              result == IF good /\ ~noise THEN ST_OK
                        ELSE IF ResendsSent < MaxResend THEN ST_RESEND ELSE ST_FAIL
              stored == IF result = ST_OK THEN DevAppend(dev, dev_path, frame[3].data) ELSE dev
              offset == Pack32(Small(Len(DevFile(stored, dev_path))))
          IN  /\ noise => good /\ ResendsSent < MaxResend
              /\ io' = io \o frame \o << Rd("ack", 1, <<result>>), Rd("ack.offset", 4, offset) >>
              /\ dev' = stored
              /\ IF AckNext(AckOutcome(result)) = "exit"
                 THEN Exit(AckOutcome(result))
                 ELSE pc' = AckNext(AckOutcome(result)) /\ UNCHANGED err
    /\ UNCHANGED <<ret, args, link, fs, fs_listing, idx, block, fpos, t_start, out>>
    /\ UNCHANGED <<given, returned, origin, menu, gtfs>>

\* the upload session closes the link; the script is run again with -df and
\* arrives at the listing: L
rt_second_run ==
    /\ pc = "close"
    /\ ~args.dump_files
    /\ args' = Flags(FALSE, FALSE, FALSE, TRUE, FALSE, FALSE)
    /\ io' = Append(io, Wr("L", CMD_L))
    /\ pc' = "list_entry"
    /\ UNCHANGED <<ret, link, fs, fs_listing, idx, block, fpos, t_start, out, err>>
    /\ UNCHANGED bench

\* one pass of the listing loop: the device sends its next file, or the terminator
rt_list_entry ==
    /\ pc = "list_entry"
    /\ LET n == EntriesSent
           last == n >= Len(dev)
           data == Pack32(IF last THEN NOT_FOUND ELSE Small(Len(dev[n + 1].data)))
           raw == (IF last THEN <<>> ELSE dev[n + 1].path) \o <<NUL>>
           size == Unpack32(data)
           path == DropLast(raw)
       IN  /\ io' = io \o << Rd("L.size", 4, data), Rd("L.path", -1, raw) >>
                       \o (IF IsTerminator(size, path) THEN <<Prompt>> ELSE <<>>)
           /\ IF IsTerminator(size, path)
              THEN /\ pc' = AfterListing
                   /\ UNCHANGED fs_listing
              ELSE /\ fs_listing' = DictSet(fs_listing, path, size)
                   /\ UNCHANGED pc
    /\ UNCHANGED <<ret, args, link, fs, idx, block, fpos, t_start, out, err>>
    /\ UNCHANGED bench

\* if ACT_DUMP_FS: prepare_fs() empties FS_PATH
rt_dump_start ==
    /\ pc = "dump_start"
    /\ fs' = <<>>
    /\ idx' = 1
    /\ pc' = DumpNext(1)
    /\ UNCHANGED <<ret, args, link, io, fs_listing, block, fpos, t_start, out, err>>
    /\ UNCHANGED bench

\* one pass of the dump loop: the local file is created, R:<dev_path> is
\* written, and the reads take what the device serves for that path
rt_dump_file ==
    /\ pc = "dump_file"
    /\ LET dev_path == fs_listing[idx].path
           listed == fs_listing[idx].size
           rel == DropFirst(dev_path)
           cmd == Wr("R", CMD_R(dev_path))
           stream == DevServe(dev, dev_path)
           size_bytes == Take(stream, 4)
       IN  IF rel = <<>>
           THEN /\ Raise("IsADirectoryError")
                /\ UNCHANGED <<io, fs, idx, out>>
           ELSE IF Short32(size_bytes)
           THEN /\ io' = io \o << cmd, Rd("R.size", 4, size_bytes) >>
                /\ fs' = FsPut(fs, rel, <<>>)
                /\ Exit("Incomplete data read")
                /\ UNCHANGED <<idx, out>>
           ELSE LET size == Unpack32(size_bytes) IN
                IF NoContents(size)
                THEN /\ io' = io \o << cmd, Rd("R.size", 4, size_bytes), Prompt >>
                     /\ fs' = FsPut(fs, rel, <<>>)
                     /\ out' = Append(out, Line(dev_path,
                                  DumpOutcome(size, size_bytes, listed, <<>>, <<>>)))
                     /\ pc' = DumpNext(idx + 1)
                     /\ idx' = idx + 1
                     /\ UNCHANGED err
                ELSE LET contents == Take(Drop(stream, 4), AsInt(size))
                         checksum == Take(Drop(stream, 4 + Len(contents)), 1)
                         outcome == DumpOutcome(size, size_bytes, listed, contents, checksum)
                         warned == IF size # listed
                                   THEN Append(out, Line(dev_path, "File size changed"))
                                   ELSE out
                     IN  /\ io' = io \o << cmd, Rd("R.size", 4, size_bytes),
                                          Rd("R.contents", AsInt(size), contents),
                                          Rd("R.checksum", 1, checksum) >>
                                     \o (IF outcome = "IndexError" THEN <<>> ELSE <<Prompt>>)
                         /\ fs' = FsPut(fs, rel, IF outcome = "saved" THEN contents ELSE <<>>)
                         /\ IF outcome = "IndexError"
                            THEN /\ Raise("IndexError")
                                 /\ out' = warned
                                 /\ UNCHANGED idx
                            ELSE /\ out' = IF outcome = "saved" THEN warned
                                           ELSE Append(warned, Line(dev_path, outcome))
                                 /\ pc' = DumpNext(idx + 1)
                                 /\ idx' = idx + 1
                                 /\ UNCHANGED err
    /\ UNCHANGED <<ret, args, link, fs_listing, block, fpos, t_start>>
    /\ UNCHANGED bench

\* device.close() of the dump session
rt_close ==
    /\ pc = "close"
    /\ args.dump_files
    /\ link' = "closed"
    /\ pc' = "done"
    /\ UNCHANGED <<ret, args, io, fs, fs_listing, idx, block, fpos, t_start, out, err>>
    /\ UNCHANGED bench

RoundTripNext ==
    \/ rt_open_file \/ rt_read_block \/ rt_send_block
    \/ rt_second_run \/ rt_list_entry
    \/ rt_dump_start \/ rt_dump_file \/ rt_close

RoundTripSpec == RoundTripInit /\ [][RoundTripNext]_vars

(***************************************************************************)
(* C14: with the simulated device, uploading a tree and then dumping the   *)
(* device gives back every file with the bytes it had: neither session     *)
(* fails, each file the dump has written is identical to the file          *)
(* uploaded, and at the end of the dump session the local tree is the      *)
(* original one - the empty file and the file of exactly 256 bytes         *)
(* included.                                                               *)
(***************************************************************************)
C14_RoundTrip ==
    /\ pc \notin {"exit", "crash"}
    /\ args.dump_files /\ pc \in {"dump_file", "close", "done"} =>
          /\ Len(fs_listing) = Len(origin)
          /\ Len(fs) = idx - 1
          /\ \A i \in DOMAIN fs : fs[i] = origin[i]
    /\ pc = "done" => fs = origin

\* a round trip of the empty file and the 256-byte file, with a block sent twice
C14_Witness ==
    /\ pc = "done"
    /\ \E i \in DOMAIN origin : origin[i].data = <<>>
    /\ \E i \in DOMAIN origin : Len(origin[i].data) = BLOCK_LEN
    /\ ResendsSent > 0
    /\ fs = origin

(***************************************************************************)
(* C21 as claimed: a read of a top-level command that came back short (no  *)
(* ready prompt, fewer than 4 bytes of a size or offset, a listing path    *)
(* without its terminator, fewer content bytes than the size, no checksum, *)
(* no wipe status, no open status, no block acknowledgment) is terminal:   *)
(* nothing is written to the device after it. The polling reads of the     *)
(* reformat waits are not reads of this kind.                              *)
(***************************************************************************)
Terminated(e) ==
    /\ e.data # <<>>
    /\ e.data[Len(e.data)] = (IF e.at = "L.path" THEN NUL ELSE LF)
CameBackShort(e) ==
    /\ e.op = "r"
    /\ e.at \notin {"Z.decision", "Z.result"}
    /\ CASE e.n = -1 -> ~Terminated(e)
         [] e.at = "W.status" -> e.data = <<>>
         [] OTHER -> Len(e.data) < e.n

\* C21: after a read that came back short, the log holds no write
C21_TimeoutIsTerminal ==
    \A k \in DOMAIN io :
        CameBackShort(io[k]) => \A m \in (k + 1)..Len(io) : io[m].op = "r"

(***************************************************************************)
(* Bench of the retry: the inner loop of the upload on one block of an     *)
(* accepted file, against a device that answers every frame with 0x21.     *)
(* The run is cut after MaxRetry answers.                                  *)
(***************************************************************************)
RetryInit ==
    /\ BenchIdle
    /\ pc = "send_block"
    /\ ret = ""
    /\ args = Flags(FALSE, TRUE, FALSE, FALSE, FALSE, TRUE)
    /\ link = "open"
    /\ fs \in { T \in Trees : T # <<>> /\ T[1].data # <<>> }
    /\ io = << Wr("W", CMD_W(DevPath(fs[1].rel))), Rd("W.status", 5, <<ST_OK, 0, 0, 0, 0>>) >>
    /\ fs_listing = <<>>
    /\ idx = 1
    /\ \E pos \in {0, BLOCK_LEN} :
          /\ pos < Len(fs[1].data)
          /\ block = ReadBlock(fs[1].data, pos)
          /\ fpos = pos + Len(block)
    /\ t_start = 0
    /\ out = <<>>
    /\ err = ""

\* one pass of the inner loop: the frame, then 0x21 and the offset
retry_send_block ==
    /\ pc = "send_block"
    /\ ResendsSent < MaxRetry
    /\ LET result == <<ST_RESEND>>
           offset == Pack32(Small(fpos - Len(block)))
       IN  /\ io' = io \o Frame(block) \o << Rd("ack", 1, result), Rd("ack.offset", 4, offset) >>
           /\ IF AckNext(AckOutcome(result[1])) = "exit"
              THEN Exit(AckOutcome(result[1]))
              ELSE pc' = AckNext(AckOutcome(result[1])) /\ UNCHANGED err
    /\ UNCHANGED <<ret, args, link, fs, fs_listing, idx, block, fpos, t_start, out>>
    /\ UNCHANGED bench

RetryNext == retry_send_block

RetrySpec == RetryInit /\ [][RetryNext]_vars

(***************************************************************************)
(* C22: the block loop has no retry ceiling: after n answers of 0x21 to    *)
(* one block, whatever n, the client has written that same frame n times   *)
(* and is about to write it again; it has not ended, has not written the   *)
(* end-of-file byte and has not moved on in the file.                      *)
(***************************************************************************)
C22_NoRetryCeiling ==
    LET M == Marks IN
    /\ pc = "send_block"
    /\ err = ""
    /\ idx = 1
    /\ block = ReadBlock(fs[1].data, fpos - Len(block))
    /\ Cardinality(M) = ResendsSent
    /\ \A p \in M : FrameAt(p) = Frame(block) /\ AckAt(p) = <<ST_RESEND>>
    /\ \A k \in DOMAIN io : io[k].at # "eof"

\* MaxRetry rejections of the second block of the 257-byte file
C22_Witness ==
    /\ ResendsSent = MaxRetry
    /\ Cardinality(Marks) = MaxRetry
    /\ fpos = BLOCK_LEN + 1
    /\ pc = "send_block"

(***************************************************************************)
(* C23: the interrupt byte 0x09 is written once in a session, it is the    *)
(* first thing that goes over the link once the link is open, and the      *)
(* version command is written only after the prompt that follows the       *)
(* interrupt was read.                                                     *)
(***************************************************************************)
C23_InterruptOnce ==
    /\ link # "none" => io # <<>> /\ io[1] = Wr("ping", <<PING>>)
    /\ io # <<>> => link # "none"
    /\ \A k \in DOMAIN io :
          /\ io[k].at = "ping" => k = 1
          /\ IsCommand(io[k]) => k >= 3 /\ IsPrompt(io[2])
          /\ io[k].at = "v" => k = 3

\* the version command was written and answered
C23_Witness ==
    /\ Len(io) >= 4
    /\ io[1].data = <<PING>>
    /\ IsPrompt(io[2])
    /\ io[3] = Wr("v", CMD_V)

(***************************************************************************)
(* C24: every block frame on the link is 0x42, the byte L, the payload and *)
(* the byte c, with a payload of 1 to 256 bytes, L = length - 1 in 0..255, *)
(* and c such that the bytes of the whole frame add up to 0 modulo 256; no *)
(* payload is written outside a frame, and none is empty.                  *)
(***************************************************************************)
WellFramed(log, p) ==
    LET payload == log[p + 2].data
        n == Len(payload)
        c == log[p + 3].data
    IN  /\ p + 3 <= Len(log)
        /\ log[p] = Wr("mark", <<BLOCK_MARK>>)
        /\ n \in 1..BLOCK_LEN
        /\ log[p + 1] = Wr("len", <<n - 1>>)
        /\ n - 1 \in 0..255
        /\ log[p + 2] = Wr("payload", payload)
        /\ Len(c) = 1
        /\ c[1] \in 0..255
        /\ log[p + 3] = Wr("cksum", c)
        /\ (BLOCK_MARK + (n - 1) + Sum(payload) + c[1]) % 256 = 0
FrameStep ==
    LET new == (Len(io) + 1)..Len(io')
        marks == { p \in new : io'[p].at = "mark" }
    IN  /\ \A p \in marks : WellFramed(io', p)
        /\ \A k \in new :
              io'[k].at \in {"len", "payload", "cksum"} =>
                  \E p \in marks : p < k /\ k <= p + 3
\* C24: every step that writes to the link writes well-formed frames only
C24_FrameShape == [][FrameStep]_vars

\* a full frame and a one-byte frame were written
C24_Witness ==
    /\ \E p \in Marks : Len(io[p + 2].data) = BLOCK_LEN /\ io[p + 1].data = <<255>>
    /\ \E p \in Marks : Len(io[p + 2].data) = 1 /\ io[p + 1].data = <<0>>

(***************************************************************************)
(* C25: when the size the device gives for R:<path> is not the size listed *)
(* for that path, the file is not failed for it: the warning is printed,   *)
(* the contents are read with the new size and the checksum byte after     *)
(* them, and contents that arrive whole with the right checksum are        *)
(* written to the local file with no error line for the path.              *)
(***************************************************************************)
SizeChanged(k) ==
    /\ Answered(k)
    /\ ~Sentinel(k)
    /\ SizeAt(k) # fs_listing[OrdinalOf(k)].size

C25_SizeChangeWarns ==
    \A k \in ReadCmds :
        SizeChanged(k) =>
            LET path == fs_listing[OrdinalOf(k)].path IN
            /\ k + 3 <= Len(io)
            /\ io[k + 2].op = "r" /\ io[k + 2].at = "R.contents"
            /\ io[k + 2].n = AsInt(SizeAt(k))
            /\ io[k + 3].op = "r" /\ io[k + 3].at = "R.checksum" /\ io[k + 3].n = 1
            /\ \E i \in DOMAIN out : out[i] = Line(path, "File size changed")
            /\ Verified(k) =>
                  /\ LocalData(DropFirst(path)) = io[k + 2].data
                  /\ \A i \in DOMAIN out :
                        out[i].path = path => out[i].msg = "File size changed"
                  /\ k + 3 = Len(io) => pc = "wait_ready"

\* a path listed with another size was read with one byte, verified, and the
\* session ended well
C25_Witness ==
    /\ pc = "done"
    /\ \E k \in ReadCmds :
          /\ SizeChanged(k)
          /\ Verified(k)
          /\ SizeAt(k) = Small(1)
          /\ LocalData(DropFirst(fs_listing[OrdinalOf(k)].path)) = io[k + 2].data

(***************************************************************************)
(* C26: the waits for the reformat decision and for the reformat result    *)
(* are bounded. Each is a run of one-byte reads, every one started before  *)
(* the deadline (the configured wait plus one read timeout) has passed on  *)
(* the time the empty reads took; a read that brought a byte is the last   *)
(* of its wait; and once the empty reads have used up the deadline the     *)
(* loop reads no more and the script ends with the timeout of that wait.   *)
(***************************************************************************)
Polls(at) == { k \in DOMAIN io : io[k].at = at }
Waited(at) == Cardinality({ k \in Polls(at) : io[k].data = <<>> }) * DEVICE_TIMEOUT
BoundedPolls(at, deadline) ==
    LET P == Polls(at) IN
    /\ \A k \in P : io[k].op = "r" /\ io[k].n = 1
    /\ (Cardinality(P) - 1) * DEVICE_TIMEOUT < deadline
    /\ \A k \in P : io[k].data # <<>> => \A m \in P : m <= k
ResultTimedOut == err = "Timed out waiting for device to finish reformatting"

C26_BoundedWaits ==
    /\ BoundedPolls("Z.decision", REFORMAT_REQ_TIMEOUT + DEVICE_TIMEOUT)
    /\ BoundedPolls("Z.result", REFORMAT_TIMEOUT + DEVICE_TIMEOUT)
    /\ pc = "await_decision" =>
          IF Waited("Z.decision") < REFORMAT_REQ_TIMEOUT + DEVICE_TIMEOUT
          THEN ENABLED await_decision /\ ~ENABLED decision_timeout
          ELSE ENABLED decision_timeout /\ ~ENABLED await_decision
    /\ pc = "await_result" =>
          IF Waited("Z.result") < REFORMAT_TIMEOUT + DEVICE_TIMEOUT
          THEN ENABLED await_result /\ ~ENABLED result_timeout
          ELSE ENABLED result_timeout /\ ~ENABLED await_result
    /\ DecisionTimedOut =>
          /\ pc = "exit"
          /\ io[Len(io)].at = "Z.decision"
          /\ \A k \in Polls("Z.decision") : io[k].data = <<>>
          /\ Waited("Z.decision") >= REFORMAT_REQ_TIMEOUT + DEVICE_TIMEOUT
    /\ ResultTimedOut =>
          /\ pc = "exit"
          /\ io[Len(io)].at = "Z.result"
          /\ \A k \in Polls("Z.result") : io[k].data = <<>>
          /\ Waited("Z.result") >= REFORMAT_TIMEOUT + DEVICE_TIMEOUT

\* the decision came on the second read, the result never came
C26_Witness ==
    /\ ResultTimedOut
    /\ Cardinality(Polls("Z.decision")) = 2
    /\ Waited("Z.decision") = DEVICE_TIMEOUT
    /\ Cardinality(Polls("Z.result")) = 2
    /\ Waited("Z.result") = 2 * DEVICE_TIMEOUT

(***************************************************************************)
(* C27 as claimed: of two blocks of one file that the client took as       *)
(* accepted, the later one never came with an offset below the offset of   *)
(* the earlier one.                                                        *)
(***************************************************************************)
TakenAsAccepted(p) == HasAck(p) /\ AckAt(p) = <<ST_OK>>
OffsetAt(p) == AsInt(Unpack32(io[p + 5].data))
SameFile(p, q) == \A x \in p..q : io[x].at # "W"

\* C27: offsets of accepted blocks of one file never decrease
C27_OffsetMonotonic ==
    LET A == { p \in Marks : TakenAsAccepted(p) } IN
    \A p, q \in A :
        (p < q /\ SameFile(p, q)) => OffsetAt(p) <= OffsetAt(q)

(***************************************************************************)
(* C28 as claimed: a session that used the link and ended without a fatal  *)
(* error has closed it, the close came after the ready prompt of the last  *)
(* command was read, and the link is closed only there, at the end: no     *)
(* read or write follows.                                                  *)
(***************************************************************************)
\* C28: the link is closed once, after the last command's prompt
C28_ClosedAfterLastPrompt ==
    /\ pc = "done" /\ io # <<>> =>
          /\ link = "closed"
          /\ IsPrompt(io[Len(io)])
    /\ link = "closed" => pc = "done"

(***************************************************************************)
(* C29: for a file whose open was accepted and whose upload reached the    *)
(* end-of-file byte, each frame acknowledged with 0x40 carries the bytes   *)
(* of the file that start where the accepted frames before it ended, and   *)
(* the accepted frames end where the file ends: every byte of the file is  *)
(* in one accepted block, in file order, rejected frames or not.           *)
(***************************************************************************)
RECURSIVE AcceptedLen(_, _)
AcceptedLen(p, q) ==
    IF p >= q THEN 0
    ELSE IF io[p].at = "mark" /\ AckAt(p) = <<ST_OK>>
         THEN Len(PayloadAt(p)) + AcceptedLen(p + 4, q)
         ELSE AcceptedLen(p + 1, q)

\* C29: the accepted blocks of a file sent to its end cover it, in order
C29_AcceptedCoverFile ==
    \A q \in Eofs :
        LET w == OpenOf(q)
            data == fs[FileOf(w)].data
        IN  /\ \A p \in FramesOf(w, q) :
                  AckAt(p) = <<ST_OK>> =>
                      LET start == AcceptedLen(w, p)
                          n == Len(PayloadAt(p))
                      IN  /\ n > 0
                          /\ start + n <= Len(data)
                          /\ PayloadAt(p) = SubSeq(data, start + 1, start + n)
            /\ AcceptedLen(w, q) = Len(data)

\* the 257-byte file was sent to its end, its one-byte block rejected once
C29_Witness ==
    \E q \in Eofs :
        LET w == OpenOf(q) IN
        /\ Len(fs[FileOf(w)].data) = BLOCK_LEN + 1
        /\ Cardinality({ p \in FramesOf(w, q) : AckAt(p) = <<ST_OK>> }) = 2
        /\ \E p \in FramesOf(w, q) : AckAt(p) = <<ST_RESEND>> /\ Len(PayloadAt(p)) = 1

(***************************************************************************)
(* C30: no W: command is written unless, earlier in the session, the wipe  *)
(* (X:/) or the reformat (Z) ended with the status 0x40 and the ready      *)
(* prompt that follows that status was read.                               *)
(***************************************************************************)
C30_UploadGated ==
    LET G == { k \in DOMAIN io :
                 /\ io[k].op = "r"
                 /\ io[k].at \in {"X.status", "Z.result"}
                 /\ io[k].data = <<ST_OK>>
                 /\ k + 1 <= Len(io)
                 /\ IsPrompt(io[k + 1]) }
    IN  \A w \in Opens : \E k \in G : k + 1 < w

\* a file was opened after a reformat that the user confirmed on the device
C30_Witness ==
    /\ \E w \in Opens : \E k \in 1..(w - 2) :
          /\ io[k].at = "Z.result"
          /\ io[k].data = <<ST_OK>>
          /\ IsPrompt(io[k + 1])
    /\ pc = "done"

(***************************************************************************)
(* C31: in a list-files or dump-files session the device is only read from *)
(* the client's side of the file system: no X:/, Z or W: command, no block *)
(* frame and no end-of-file byte is written; in a generate-only session    *)
(* the serial link is never opened and nothing goes over it.               *)
(***************************************************************************)
C31_ReadOnlySessions ==
    /\ (ACT_LIST_FS \/ ACT_DUMP_FS) =>
          \A k \in DOMAIN io :
              io[k].op = "w" => io[k].at \in {"ping", "v", "I", "L", "R"}
    /\ (ACT_GENERATE /\ ~ACT_UPLOAD) => (link = "none" /\ io = <<>>)

\* a dump session read two paths and ended
C31_Witness ==
    /\ ACT_DUMP_FS
    /\ pc = "done"
    /\ link = "closed"
    /\ Cardinality(ReadCmds) = 2

(***************************************************************************)
(* C32: the commands of a session are written in a fixed order of stages:  *)
(* 0x09, v, I, L, the R: commands, X:/ or Z, the W: commands. No command   *)
(* of an earlier stage is written after one of a later stage; 0x09, v, I,  *)
(* L and the wipe or reformat command are written at most once; I is       *)
(* written only in a verbose listing or dump session, L only in a listing  *)
(* or dump session, R: only in a dump session, X:/, Z and W: only in an    *)
(* upload session.                                                         *)
(***************************************************************************)
Stage(at) ==
    CASE at = "ping" -> 0
      [] at = "v" -> 1
      [] at = "I" -> 2
      [] at = "L" -> 3
      [] at = "R" -> 4
      [] at \in {"X", "Z"} -> 5
      [] at = "W" -> 6

C32_StageOrder ==
    LET C == { k \in DOMAIN io : io[k].op = "w" /\ (io[k].at = "ping" \/ IsCommand(io[k])) }
    IN  /\ \A j, k \in C :
              j < k => /\ Stage(io[j].at) <= Stage(io[k].at)
                       /\ Stage(io[j].at) = Stage(io[k].at) => io[k].at \in {"R", "W"}
        /\ \A k \in C :
              /\ io[k].at = "I" => (VERBOSE /\ ACT_RETRIEVE_FS_LISTING)
              /\ io[k].at = "L" => ACT_RETRIEVE_FS_LISTING
              /\ io[k].at = "R" => ACT_DUMP_FS
              /\ io[k].at \in {"X", "Z", "W"} => ACT_UPLOAD
              /\ io[k].at = "v" => \E j \in C : j < k /\ io[j].at = "ping"
              /\ io[k].at \notin {"ping", "v"} => \E j \in C : j < k /\ io[j].at = "v"

\* a verbose listing session wrote 0x09, v, I and L and ended
C32_Witness ==
    /\ pc = "done"
    /\ VERBOSE
    /\ \E a, b, c, d \in DOMAIN io :
          /\ a < b /\ b < c /\ c < d
          /\ io[a].at = "ping" /\ io[b].at = "v" /\ io[c].at = "I" /\ io[d].at = "L"

(***************************************************************************)
(* C33 as claimed: when a dump session has ended without a fatal error, a  *)
(* local file exists for a listed path only if its download succeeded: a   *)
(* path that was skipped as not found, not openable, incomplete or failing *)
(* its checksum has no local file.                                         *)
(***************************************************************************)
C33_NoFileUnlessSaved ==
    (ACT_DUMP_FS /\ pc = "done") =>
        \A k \in ReadCmds :
            LET rel == DropFirst(fs_listing[OrdinalOf(k)].path) IN
            HasLocal(rel) => Verified(k)

(***************************************************************************)
(* C34 as claimed: a list-files session whose listing was read to its      *)
(* terminator and prompt goes on without error, whatever the listing       *)
(* holds, the empty listing included: the table is printed and the link    *)
(* is closed.                                                              *)
(***************************************************************************)
ListingDone ==
    \E k \in DOMAIN io :
        io[k].at = "L.path" /\ k < Len(io) /\ IsPrompt(io[k + 1])

C34_ListCompletes ==
    (ACT_LIST_FS /\ ListingDone) =>
        /\ pc \in {"list_fs", "close", "done"}
        /\ err = ""
        /\ pc = "done" => link = "closed"

(***************************************************************************)
(* The command line and the edit menu.  A text (a port, a path, a URL) is  *)
(* the sequence of its words, the words being what single spaces separate; *)
(* sys.argv[1:] is a sequence of texts; a printed command line is the      *)
(* sequence of its words, and the shell hands each word on as one          *)
(* argument.  Only the short option names are modelled.                    *)
(***************************************************************************)
Text(w) == <<w>>
Shell(words) == [i \in 1..Len(words) |-> Text(words[i])]

\* str(n) and int(s) on the numbers in use
Decimals ==
    { <<5, "5">>, <<10, "10">>, <<30, "30">>, <<60, "60">>, <<9600, "9600">>, <<115200, "115200">> }
Str(n) == (CHOOSE d \in Decimals : d[1] = n)[2]
IsInt(w) == \E d \in Decimals : d[2] = w
IntOf(w) == (CHOOSE d \in Decimals : d[2] = w)[1]

\* parser.add_argument(...): the option strings
StoreTrue == {"-e", "-v", "-nf", "-ld", "-go", "-uo", "-lf", "-df", "-lm"}
TakesValue == {"-d", "-b", "-to", "-frto", "-fto", "-fs", "-u", "-r", "-lr"}
IntTyped == {"-b", "-to", "-frto", "-fto"}
group_action == {"-ld", "-go", "-uo", "-lf", "-df", "-lm", "-lr"}
Dest(o) ==
    CASE o = "-e" -> "edit_action"
      [] o = "-v" -> "verbose"
      [] o = "-nf" -> "no_format"
      [] o = "-ld" -> "list_devices"
      [] o = "-go" -> "generate_only"
      [] o = "-uo" -> "upload_only"
      [] o = "-lf" -> "list_files"
      [] o = "-df" -> "dump_files"
      [] o = "-lm" -> "list_modes"
      [] o = "-lr" -> "list_routes"
      [] o = "-d" -> "device"
      [] o = "-b" -> "baud"
      [] o = "-to" -> "timeout"
      [] o = "-frto" -> "format_req_timeout"
      [] o = "-fto" -> "format_timeout"
      [] o = "-fs" -> "filesystem"
      [] o = "-u" -> "dataset_url"
      [] o = "-r" -> "routes"

\* the namespace when no argument is given (None is the empty text)
Defaults ==
    [ok |-> TRUE, edit_action |-> FALSE, verbose |-> FALSE, no_format |-> FALSE,
     list_devices |-> FALSE, generate_only |-> FALSE, upload_only |-> FALSE,
     list_files |-> FALSE, dump_files |-> FALSE, list_modes |-> FALSE, list_routes |-> <<>>,
     device |-> Text("/dev/ttyUSB0"), baud |-> 115200, timeout |-> 10,
     format_req_timeout |-> 30, format_timeout |-> 60,
     filesystem |-> Text("fs"),
     dataset_url |-> Text("https://data.ptv.vic.gov.au/downloads/gtfs.zip"),
     routes |-> <<>>]

\* an argument argparse takes for an option string
IsOption(a) == Len(a) = 1 /\ a[1] \in StoreTrue \cup TakesValue
\* the options of the exclusive group seen so far
GroupSeen(r) ==
    { o \in group_action : IF o = "-lr" THEN r.list_routes # <<>> ELSE r[Dest(o)] }
Usage(r) == [r EXCEPT !.ok = FALSE]

\* an option of the exclusive group after another one of the group
Conflict(r, o) == o \in group_action /\ GroupSeen(r) \ {o} # {}

\* parser.parse_args() from argument i on
RECURSIVE ParseFrom(_, _, _)
ParseFrom(a, i, r) ==
    IF i > Len(a) THEN r
    ELSE IF ~IsOption(a[i]) THEN Usage(r)
    ELSE LET o == a[i][1] IN
         IF Conflict(r, o) THEN Usage(r)
         ELSE IF o \in StoreTrue THEN ParseFrom(a, i + 1, [r EXCEPT ![Dest(o)] = TRUE])
         ELSE IF i + 1 > Len(a) \/ IsOption(a[i + 1]) THEN Usage(r)
         ELSE IF o \in IntTyped
              THEN IF Len(a[i + 1]) = 1 /\ IsInt(a[i + 1][1])
                   THEN ParseFrom(a, i + 2, [r EXCEPT ![Dest(o)] = IntOf(a[i + 1][1])])
                   ELSE Usage(r)
         ELSE IF o = "-r"
              THEN ParseFrom(a, i + 2, [r EXCEPT !.routes = Append(r.routes, a[i + 1])])
         ELSE ParseFrom(a, i + 2, [r EXCEPT ![Dest(o)] = a[i + 1]])
parse_args(a) == ParseFrom(a, 1, Defaults)

\* the module globals as they are set from args
Globals(a) ==
    LET retrieve == a.list_files \/ a.dump_files
        default == ~a.generate_only /\ ~a.upload_only /\ ~retrieve
    IN  [ACT_LIST_FS |-> a.list_files,
         ACT_DUMP_FS |-> a.dump_files,
         ACT_RETRIEVE_FS_LISTING |-> retrieve,
         ACT_GENERATE |-> IF default THEN TRUE ELSE a.generate_only,
         ACT_UPLOAD |-> IF default THEN TRUE ELSE a.upload_only,
         ACT_CONNECT_DEV |-> retrieve \/ (IF default THEN TRUE ELSE a.upload_only),
         EDIT_ACTION |-> a.edit_action,
         VERBOSE |-> a.verbose,
         DEVICE_PORT |-> a.device,
         DEVICE_BAUD |-> a.baud,
         DEVICE_TIMEOUT |-> a.timeout,
         FS_PATH |-> a.filesystem,
         DATASET_URL |-> a.dataset_url,
         NO_REFORMAT |-> a.no_format,
         REFORMAT_REQ_TIMEOUT |-> a.format_req_timeout,
         REFORMAT_TIMEOUT |-> a.format_timeout,
         ROUTES |-> a.routes]

\* what the user can enter in the menu: ports the system lists, a port typed
\* by hand, numbers, a path, a URL, the routes of one mode
ListedPorts == << Text("COM7") >>
TypedPorts == { <<"my", "port">> }
TypedNumbers == { 5 }
TypedBauds == { 9600 }
TypedPaths == { <<"my", "fs">> }
TypedUrls == { Text("http://localhost/gtfs.zip") }
TypedRoutes == { "MetroBus:903" }

\* the command lines the script is started with
ArgvChoices ==
    { Shell(<<"-e">>),
      Shell(<<"-e", "-v", "-lf">>),
      Shell(<<"-e", "-uo", "-nf", "-fs">>) \o << <<"my", "fs">> >>,
      Shell(<<"-df", "-to", "5">>),
      Shell(<<"-e", "-go", "-lf">>),
      Shell(<<"-lm">>) }

MenuInit ==
    /\ pc = "parse"
    /\ ret = ""
    /\ args = <<>>
    /\ link = "none"
    /\ io = <<>>
    /\ fs = <<>>
    /\ fs_listing = <<>>
    /\ idx = 0
    /\ block = <<>>
    /\ fpos = 0
    /\ t_start = 0
    /\ out = <<>>
    /\ err = ""
    /\ given = <<>>
    /\ returned = 0
    /\ dev = <<>>
    /\ origin = <<>>
    /\ argv \in ArgvChoices
    /\ conf = <<>>
    /\ command = <<>>
    /\ GtfsIdle

\* what no step of the menu touches
MenuFrame ==
    UNCHANGED <<ret, link, io, fs, fs_listing, idx, block, fpos, t_start, out,
                given, returned, dev, origin, argv, gtfs>>

\* args = parser.parse_args(), the list options, the globals, if EDIT_ACTION
parse ==
    /\ pc = "parse"
    /\ LET a == parse_args(argv) IN
       /\ args' = a
       /\ IF ~a.ok
          THEN /\ pc' = "exit"
               /\ err' = "usage"
               /\ UNCHANGED conf
          ELSE /\ conf' = Globals(a)
               /\ UNCHANGED err
               /\ pc' = IF a.list_devices \/ a.list_modes \/ a.list_routes # <<>> THEN "exit"
                        ELSE IF a.edit_action THEN "main"
                        ELSE "run"
    /\ UNCHANGED command
    /\ MenuFrame

\* the main menu
main_menu ==
    /\ pc = "main"
    /\ \E option \in 0..6 :
          /\ pc' = CASE option = 0 -> "exit"
                     [] option = 1 -> "operation"
                     [] option = 2 -> "device"
                     [] option = 3 -> "fs"
                     [] option = 4 -> "dataset"
                     [] option = 5 -> "main"
                     [] option = 6 -> "command"
          /\ conf' = IF option = 5 THEN [conf EXCEPT !.VERBOSE = ~conf.VERBOSE] ELSE conf
    /\ UNCHANGED <<args, command, err>>
    /\ MenuFrame

\* faulty variant: listing the files keeps the upload selected
Selected_ListKeepsUpload(option) ==
    CASE option = 1 -> <<TRUE, TRUE, FALSE, FALSE>>
      [] option = 2 -> <<TRUE, FALSE, FALSE, FALSE>>
      [] option = 3 -> <<FALSE, TRUE, FALSE, FALSE>>
      [] option = 4 -> <<FALSE, TRUE, TRUE, FALSE>>
      [] option = 5 -> <<FALSE, FALSE, FALSE, TRUE>>

\* ACT_GENERATE, ACT_UPLOAD, ACT_LIST_FS, ACT_DUMP_FS as an option sets them
Selected(option) ==
    CASE option = 1 -> <<TRUE, TRUE, FALSE, FALSE>>
      [] option = 2 -> <<TRUE, FALSE, FALSE, FALSE>>
      [] option = 3 -> <<FALSE, TRUE, FALSE, FALSE>>
      [] option = 4 -> <<FALSE, FALSE, TRUE, FALSE>>
      [] option = 5 -> <<FALSE, FALSE, FALSE, TRUE>>

\* the operation shown as selected, 0 for the unsupported combination
Operation(c) ==
    IF c.ACT_GENERATE /\ c.ACT_UPLOAD THEN 1
    ELSE IF c.ACT_GENERATE THEN 2
    ELSE IF c.ACT_UPLOAD THEN 3
    ELSE IF c.ACT_LIST_FS THEN 4
    ELSE IF c.ACT_DUMP_FS THEN 5
    ELSE 0

\* one pass of the operation selection loop
select_operation ==
    /\ pc = "operation"
    /\ IF Operation(conf) = 0
       THEN /\ pc' = "exit"
            /\ err' = "Unsupported action combination"
            /\ UNCHANGED conf
       ELSE /\ UNCHANGED err
            /\ \E option \in 0..5 :
                  IF option = 0
                  THEN pc' = "main" /\ UNCHANGED conf
                  ELSE LET f == Selected(option) IN
                       /\ conf' = [conf EXCEPT !.ACT_GENERATE = f[1],
                                               !.ACT_UPLOAD = f[2],
                                               !.ACT_LIST_FS = f[3],
                                               !.ACT_DUMP_FS = f[4],
                                               !.ACT_RETRIEVE_FS_LISTING = f[3] \/ f[4],
                                               !.ACT_CONNECT_DEV = (f[3] \/ f[4]) \/ f[2]]
                       /\ UNCHANGED pc
    /\ UNCHANGED <<args, command>>
    /\ MenuFrame

\* one pass of the device settings loop; an empty input keeps the setting
device_settings ==
    /\ pc = "device"
    /\ \E option \in 0..5 :
          CASE option = 0 -> pc' = "main" /\ UNCHANGED conf
            [] option = 1 ->
                 \E port \in 0..(Len(ListedPorts) + 1) :
                     IF port = 0 THEN pc' = "main" /\ UNCHANGED conf
                     ELSE IF port <= Len(ListedPorts)
                     THEN /\ conf' = [conf EXCEPT !.DEVICE_PORT = ListedPorts[port]]
                          /\ UNCHANGED pc
                     ELSE /\ \E new_port \in TypedPorts \cup { <<>> } :
                               conf' = IF Len(new_port) > 0
                                       THEN [conf EXCEPT !.DEVICE_PORT = new_port]
                                       ELSE conf
                          /\ UNCHANGED pc
            [] option = 2 ->
                 /\ \E new_baud \in TypedBauds \cup {0} :
                       conf' = IF new_baud > 0 THEN [conf EXCEPT !.DEVICE_BAUD = new_baud] ELSE conf
                 /\ UNCHANGED pc
            [] option = 3 ->
                 /\ \E new_timeout \in TypedNumbers \cup {0} :
                       conf' = IF new_timeout > 0
                               THEN [conf EXCEPT !.DEVICE_TIMEOUT = new_timeout] ELSE conf
                 /\ UNCHANGED pc
            [] option = 4 ->
                 /\ \E new_timeout \in TypedNumbers \cup {0} :
                       conf' = IF new_timeout > 0
                               THEN [conf EXCEPT !.REFORMAT_REQ_TIMEOUT = new_timeout] ELSE conf
                 /\ UNCHANGED pc
            [] option = 5 ->
                 /\ \E new_timeout \in TypedNumbers \cup {0} :
                       conf' = IF new_timeout > 0
                               THEN [conf EXCEPT !.REFORMAT_TIMEOUT = new_timeout] ELSE conf
                 /\ UNCHANGED pc
    /\ UNCHANGED <<args, command, err>>
    /\ MenuFrame

\* one pass of the file system settings loop
fs_settings ==
    /\ pc = "fs"
    /\ \E option \in 0..2 :
          CASE option = 0 -> pc' = "main" /\ UNCHANGED conf
            [] option = 1 ->
                 /\ \E new_path \in TypedPaths \cup { <<>> } :
                       conf' = IF Len(new_path) > 0 THEN [conf EXCEPT !.FS_PATH = new_path] ELSE conf
                 /\ UNCHANGED pc
            [] option = 2 ->
                 /\ conf' = [conf EXCEPT !.NO_REFORMAT = ~conf.NO_REFORMAT]
                 /\ UNCHANGED pc
    /\ UNCHANGED <<args, command, err>>
    /\ MenuFrame

\* one pass of the dataset settings loop
dataset_settings ==
    /\ pc = "dataset"
    /\ \E option \in 0..2 :
          CASE option = 0 -> pc' = "main" /\ UNCHANGED conf
            [] option = 1 ->
                 /\ \E new_url \in TypedUrls \cup { <<>> } :
                       conf' = IF Len(new_url) > 0 THEN [conf EXCEPT !.DATASET_URL = new_url] ELSE conf
                 /\ UNCHANGED pc
            [] option = 2 -> pc' = "routes" /\ UNCHANGED conf
    /\ UNCHANGED <<args, command, err>>
    /\ MenuFrame

\* one pass of the route selection loop, on the one mode that has routes typed
select_routes ==
    /\ pc = "routes"
    /\ \/ pc' = "dataset" /\ UNCHANGED conf
       \/ /\ \E new_routes \in TypedRoutes \cup { "" } :
                conf' = [conf EXCEPT !.ROUTES = IF new_routes = "" THEN <<>>
                                                ELSE << Text(new_routes) >>]
          /\ UNCHANGED pc
    /\ UNCHANGED <<args, command, err>>
    /\ MenuFrame


\* one -r argument for every mode that has routes
RECURSIVE RouteArgs(_)
RouteArgs(R) == IF R = <<>> THEN <<>> ELSE <<"-r">> \o Head(R) \o RouteArgs(Tail(R))

\* the part of command with the verbose, action and device options
ActionDeviceArgs(c) ==
    (IF c.VERBOSE THEN <<"-v">> ELSE <<>>)
    \o (IF ~(c.ACT_GENERATE /\ c.ACT_UPLOAD)
        THEN (IF c.ACT_GENERATE THEN <<"-go">>
              ELSE IF c.ACT_UPLOAD THEN <<"-uo">>
              ELSE IF c.ACT_LIST_FS THEN <<"-lf">>
              ELSE IF c.ACT_DUMP_FS THEN <<"-df">>
              ELSE <<>>)
        ELSE <<>>)
    \o (IF c.ACT_CONNECT_DEV
        THEN <<"-d">> \o c.DEVICE_PORT
             \o <<"-b", Str(c.DEVICE_BAUD), "-to", Str(c.DEVICE_TIMEOUT)>>
             \o (IF ~c.NO_REFORMAT
                 THEN <<"-frto", Str(c.REFORMAT_REQ_TIMEOUT), "-fto", Str(c.REFORMAT_TIMEOUT)>>
                 ELSE <<"-nf">>)
        ELSE <<>>)

\* the part of command with the dataset and file system options
DatasetFsArgs(c) ==
    (IF c.ACT_GENERATE
        THEN <<"-u">> \o c.DATASET_URL
             \o RouteArgs(c.ROUTES)
        ELSE <<>>)
    \o (IF c.ACT_GENERATE \/ c.ACT_UPLOAD \/ c.ACT_DUMP_FS
        THEN <<"-fs">> \o c.FS_PATH
        ELSE <<>>)

\* command, without sys.argv[0] (or the docker run prefix) in front
Command(c) == ActionDeviceArgs(c) \o DatasetFsArgs(c)

\* the command line is put together and printed
generate_command ==
    /\ pc = "command"
    /\ command' = Command(conf)
    /\ pc' = "run"
    /\ UNCHANGED <<args, conf, err>>
    /\ MenuFrame

MenuNext ==
    \/ parse \/ main_menu \/ select_operation \/ device_settings
    \/ fs_settings \/ dataset_settings \/ select_routes \/ generate_command

MenuSpec == MenuInit /\ [][MenuNext]_vars

\* the action flags of a configuration
ActionFlags(c) == <<c.ACT_GENERATE, c.ACT_UPLOAD, c.ACT_LIST_FS, c.ACT_DUMP_FS>>
FiveCombinations ==
    { <<TRUE, TRUE, FALSE, FALSE>>, <<TRUE, FALSE, FALSE, FALSE>>, <<FALSE, TRUE, FALSE, FALSE>>,
      <<FALSE, FALSE, TRUE, FALSE>>, <<FALSE, FALSE, FALSE, TRUE>> }

\* C35: once the arguments are parsed, and after every selection made in the
\* operation menu, generate/upload/list/dump are one of the five combinations,
\* retrieve-listing is list or dump, connect-device is retrieve-listing or
\* upload, and the "Unsupported action combination" exit is never taken
C35_FiveCombinations ==
    /\ conf # <<>> =>
          /\ ActionFlags(conf) \in FiveCombinations
          /\ conf.ACT_RETRIEVE_FS_LISTING = (conf.ACT_LIST_FS \/ conf.ACT_DUMP_FS)
          /\ conf.ACT_CONNECT_DEV = (conf.ACT_RETRIEVE_FS_LISTING \/ conf.ACT_UPLOAD)
    /\ err # "Unsupported action combination"

\* the operation menu has changed the flags the arguments gave
C35_Witness ==
    /\ pc = "operation"
    /\ conf # <<>>
    /\ ActionFlags(conf) # ActionFlags(Globals(args))
    /\ conf.ACT_DUMP_FS

\* the action and device options of the printed command line, given back to
\* the program
Reparsed == parse_args(Shell(SubSeq(command, 1, Len(command) - Len(DatasetFsArgs(conf)))))
\* the menu was left with "Save changes"
Saved == pc = "run" /\ args.edit_action
SameChoices(g, c) ==
    /\ ActionFlags(g) = ActionFlags(c)
    /\ g.VERBOSE = c.VERBOSE
    /\ c.ACT_CONNECT_DEV => g.NO_REFORMAT = c.NO_REFORMAT

\* C36: the printed command line parses, under the program's own argument
\* rules, to the same generate/upload/list/dump flags, the same verbose flag
\* and, when the device is connected to, the same wipe-or-reformat choice as
\* the configuration the menu ended in
C36_CommandRoundTrips ==
    Saved => (Reparsed.ok /\ SameChoices(Globals(Reparsed), conf))

\* the round trip of the command lines whose port is a single word
C36_OneWordRoundTrips ==
    (Saved /\ (conf.ACT_CONNECT_DEV => Len(conf.DEVICE_PORT) = 1))
        => (Reparsed.ok /\ SameChoices(Globals(Reparsed), conf))
\* a port typed with a space in it is in the printed command line
C36_TypedPortSaved ==
    ~(Saved /\ conf.ACT_CONNECT_DEV /\ conf.DEVICE_PORT = <<"my", "port">>)

(***************************************************************************)
(* gtfs.py: the stopping pattern of trips, read from the stop-times file.  *)
(***************************************************************************)
\* the trips asked for, and what the rows of the file can hold
trip_ids == <<"t1", "t2">>
RowTrips == {"t1", "t2", "t3"}
StopIds == {"s1", "s2"}
SequenceWords == {"5", "10"}
Row == [trip_id : RowTrips, stop_id : StopIds, stop_sequence : SequenceWords]

PatternInit ==
    /\ SessionIdle
    /\ pc = "rows"
    /\ given = <<>>
    /\ returned = 0
    /\ dev = <<>>
    /\ origin = <<>>
    /\ MenuIdle
    /\ rows \in UNION { [1..n -> Row] : n \in 0..MaxRows }
    /\ sequence = [id \in { trip_ids[k] : k \in 1..Len(trip_ids) } |-> <<>>]
    /\ patterns = <<>>
    /\ pattern_queue = <<>>
    /\ merge_result = <<>>
    /\ merged = FALSE
    /\ scan = 0
    /\ call = <<>>

\* one pass of "for row in reader", with get_time=False
read_row ==
    /\ pc = "rows"
    /\ scan < Len(rows)
    /\ LET row == rows[scan + 1]
           seq == IntOf(row.stop_sequence)
       IN  sequence' = IF row.trip_id \in DOMAIN sequence
                       THEN [sequence EXCEPT ![row.trip_id] = (seq :> row.stop_id) @@ @]
                       ELSE sequence
    /\ scan' = scan + 1
    /\ UNCHANGED <<rows, patterns, pattern_queue, merge_result, merged, call>>
    /\ UNCHANGED <<session, given, returned, dev, origin, menu>>

\* faulty variant: the largest key comes first
SortedKeys_Descending(S) ==
    LET RECURSIVE Down(_)
        Down(T) == IF T = {} THEN <<>>
                   ELSE LET m == CHOOSE x \in T : \A y \in T : y <= x
                        IN  <<m>> \o Down(T \ {m})
    IN  Down(S)

\* the keys of sorted(d.items()): the items are ordered by their key
RECURSIVE SortedKeys(_)
SortedKeys(S) ==
    IF S = {} THEN <<>>
    ELSE LET m == CHOOSE x \in S : \A y \in S : x <= y
         IN  <<m>> \o SortedKeys(S \ {m})

\* [item[1] for item in sorted(d.items())]
SortedValues(d) ==
    LET keys == SortedKeys(DOMAIN d) IN [n \in 1..Len(keys) |-> d[keys[n]]]

\* the end of the file: sequence_sorted is built and returned
sort_sequences ==
    /\ pc = "rows"
    /\ scan = Len(rows)
    /\ patterns' = [id \in DOMAIN sequence |-> SortedValues(sequence[id])]
    /\ pc' = "returned"
    /\ UNCHANGED <<rows, sequence, pattern_queue, merge_result, merged, scan, call>>
    /\ UNCHANGED <<ret, args, link, io, fs, fs_listing, idx, block, fpos, t_start, out, err>>
    /\ UNCHANGED <<given, returned, dev, origin, menu>>

PatternNext == read_row \/ sort_sequences

PatternSpec == PatternInit /\ [][PatternNext]_vars

\* the sequence numbers the file has for a trip, and the last row of each
NumbersOf(id) ==
    { IntOf(rows[k].stop_sequence) : k \in { k \in 1..Len(rows) : rows[k].trip_id = id } }
RowsOf(id, n) ==
    { k \in 1..Len(rows) : rows[k].trip_id = id /\ IntOf(rows[k].stop_sequence) = n }
LastRow(id, n) == CHOOSE k \in RowsOf(id, n) : \A other \in RowsOf(id, n) : other <= k

\* C37: what get_trip_stop_pattern returns for a requested trip has one stop
\* for every distinct sequence number of the trip's rows, in increasing order
\* of the sequence numbers whatever the order of the rows, and the stop is the
\* one of the last row read for that number
C37_SortedBySequence ==
    pc = "returned" =>
        \A t \in 1..Len(trip_ids) :
            LET id == trip_ids[t]
                p == patterns[id]
            IN  /\ Len(p) = Cardinality(NumbersOf(id))
                /\ \A n \in NumbersOf(id) :
                       p[Cardinality({ m \in NumbersOf(id) : m < n }) + 1]
                           = rows[LastRow(id, n)].stop_id

\* rows out of order, with one sequence number given twice
C37_Witness ==
    /\ pc = "returned"
    /\ \E id \in DOMAIN patterns :
          /\ Len(patterns[id]) = 2
          /\ patterns[id][1] # patterns[id][2]
          /\ \E k \in 1..Len(rows), l \in 1..Len(rows) :
                /\ k < l
                /\ rows[k].trip_id = id /\ rows[l].trip_id = id
                /\ IntOf(rows[l].stop_sequence) < IntOf(rows[k].stop_sequence)
                /\ \E o \in 1..(l - 1) :
                      /\ o # k
                      /\ rows[o].trip_id = id
                      /\ rows[o].stop_sequence = rows[k].stop_sequence
                      /\ rows[o].stop_id # rows[k].stop_id

(***************************************************************************)
(* gtfs.py: merge_patterns and merge_two_patterns.  Indices are kept as    *)
(* Python has them, from 0.                                                *)
(***************************************************************************)
TripNames == <<"t1", "t2", "t3", "t4", "t5">>
MergeStops == {"s1", "s2", "s3"}
AllPatterns == UNION { [1..n -> MergeStops] : n \in 0..MaxStops }
PatternChoices ==
    { <<>>, <<"s2">>, <<"s1", "s3">>, <<"s1", "s2", "s3">>, <<"s3", "s4">>, <<"s4", "s1">> }

\* one or two trips with every pattern of up to MaxStops stops, longer lists
\* with the patterns of PatternChoices
MergeInit ==
    /\ SessionIdle
    /\ pc = "merge_patterns"
    /\ given = <<>>
    /\ returned = 0
    /\ dev = <<>>
    /\ origin = <<>>
    /\ MenuIdle
    /\ rows = <<>>
    /\ sequence = <<>>
    /\ \E n \in 1..MaxTrips :
          patterns \in [{ TripNames[k] : k \in 1..n } ->
                            IF n <= 2 THEN AllPatterns ELSE PatternChoices]
    /\ pattern_queue = <<>>
    /\ merge_result = <<>>
    /\ merged = FALSE
    /\ scan = 0
    /\ call = <<>>

\* what no step of merge_patterns touches
MergeFrame ==
    UNCHANGED <<ret, args, link, io, fs, fs_listing, idx, block, fpos, t_start, out, err,
                given, returned, dev, origin, menu, rows, sequence, patterns>>

\* the trip ids merge_patterns is called with
MergeTrips == SelectSeq(TripNames, LAMBDA id : id \in DOMAIN patterns)

\* pattern_queue = [...]; result = pattern_queue.pop()
enter_merge_patterns ==
    /\ pc = "merge_patterns"
    /\ LET queue == [k \in 1..Len(MergeTrips) |-> patterns[MergeTrips[k]]] IN
       /\ merge_result' = queue[Len(queue)]
       /\ pattern_queue' = SubSeq(queue, 1, Len(queue) - 1)
    /\ pc' = "while"
    /\ UNCHANGED <<merged, scan, call>>
    /\ MergeFrame

\* while len(pattern_queue) != 0: merged = False
outer_loop ==
    /\ pc = "while"
    /\ IF Len(pattern_queue) # 0
       THEN /\ merged' = FALSE
            /\ scan' = 0
            /\ pc' = "for"
       ELSE /\ pc' = "returned"
            /\ UNCHANGED <<merged, scan>>
    /\ UNCHANGED <<pattern_queue, merge_result, call>>
    /\ MergeFrame

Elems(s) == { s[k] : k \in 1..Len(s) }
\* s.index(elem)
IndexOf(s, elem) == (CHOOSE k \in 1..Len(s) : s[k] = elem /\ \A m \in 1..(k - 1) : s[m] # elem) - 1
\* s[from:to] and s[from:]
Slice(s, from, to) == SubSeq(s, from + 1, to)
SliceFrom(s, from) == SubSeq(s, from + 1, Len(s))
Min(S) == CHOOSE x \in S : \A y \in S : x <= y
Max(S) == CHOOSE x \in S : \A y \in S : y <= x

\* merge_two_patterns(a, b) up to the overlap loop: "None", "ValueError", or
\* the locals the loop starts with
Overlaps(a, b) ==
    LET common_elem == Elems(a) \cap Elems(b)
        common_idx_a == { IndexOf(a, elem) : elem \in common_elem }
        common_idx_b == { IndexOf(b, elem) : elem \in common_elem }
    IN  IF common_elem = {} THEN [returns |-> "None"]
        ELSE IF Min(common_idx_a) # 0 /\ Min(common_idx_b) # 0 THEN [returns |-> "ValueError"]
        ELSE LET swap == Min(common_idx_b) # 0
                 A == IF swap THEN b ELSE a
                 B == IF swap THEN a ELSE b
                 idx_A == IF swap THEN common_idx_b ELSE common_idx_a
                 idx_B == IF swap THEN common_idx_a ELSE common_idx_b
             IN  [returns |-> "",
                  a |-> A, b |-> B,
                  common_idx_a_min |-> Min(idx_A), common_idx_a_max |-> Max(idx_A),
                  common_idx_b_min |-> Min(idx_B), common_idx_b_max |-> Max(idx_B),
                  a_overlap |-> Slice(A, Min(idx_A), Max(idx_A) + 1),
                  b_overlap |-> Slice(B, Min(idx_B), Max(idx_B) + 1),
                  overlap |-> <<>>, i |-> 0, j |-> 0]

\* one pass of "for i in range(len(pattern_queue))" up to the overlap loop of
\* the call it makes; the end of the for loop when the queue is through
for_loop ==
    /\ pc = "for"
    /\ IF scan < Len(pattern_queue)
       THEN LET c == Overlaps(merge_result, pattern_queue[scan + 1]) IN
            IF c.returns # ""
            THEN /\ scan' = scan + 1
                 /\ call' = <<>>
                 /\ UNCHANGED pc
            ELSE /\ call' = c
                 /\ pc' = "overlap"
                 /\ UNCHANGED scan
       ELSE /\ pc' = "if not merged"
            /\ UNCHANGED <<scan, call>>
    /\ UNCHANGED <<pattern_queue, merge_result, merged>>
    /\ MergeFrame

\* the body of the overlap loop
OverlapPass(c) ==
    LET a_i == c.a_overlap[c.i + 1]
        b_j == c.b_overlap[c.j + 1]
    IN  IF a_i = b_j
        THEN [c EXCEPT !.overlap = Append(@, a_i), !.i = @ + 1, !.j = @ + 1]
        ELSE IF c.i < Len(c.a_overlap) - 1 /\ c.a_overlap[c.i + 2] = b_j
        THEN [c EXCEPT !.overlap = Append(@, a_i), !.i = @ + 1]
        ELSE IF c.j < Len(c.b_overlap) - 1 /\ c.b_overlap[c.j + 2] = a_i
        THEN [c EXCEPT !.overlap = Append(@, b_j), !.j = @ + 1]
        ELSE [c EXCEPT !.returns = "None"]

\* what merge_two_patterns returns after the loop
Merged(c) ==
    Slice(c.a, 0, c.common_idx_a_min)
    \o c.overlap
    \o (IF c.common_idx_b_max # Len(c.b) - 1
        THEN SliceFrom(c.b, c.common_idx_b_max + 1)
        ELSE SliceFrom(c.a, c.common_idx_a_max + 1))

\* faulty variant: the merged pattern stays in the queue
Pop_Keep(queue, k) == queue

\* pattern_queue.pop(k)
Pop(queue, k) == SubSeq(queue, 1, k) \o SubSeq(queue, k + 2, Len(queue))

\* one pass of the overlap loop; after the loop, the return of the merged
\* pattern and what merge_patterns does with it
overlap_loop ==
    /\ pc = "overlap"
    /\ IF call.i < Len(call.a_overlap) /\ call.j < Len(call.b_overlap)
       THEN LET c == OverlapPass(call) IN
            IF c.returns = "None"
            THEN /\ call' = <<>>
                 /\ scan' = scan + 1
                 /\ pc' = "for"
                 /\ UNCHANGED <<pattern_queue, merge_result, merged>>
            ELSE /\ call' = c
                 /\ UNCHANGED <<pc, scan, pattern_queue, merge_result, merged>>
       ELSE /\ merged' = TRUE
            /\ merge_result' = Merged(call)
            /\ pattern_queue' = Pop(pattern_queue, scan)
            /\ pc' = "if not merged"
            /\ UNCHANGED <<scan, call>>
    /\ MergeFrame

\* if not merged: break
check_merged ==
    /\ pc = "if not merged"
    /\ pc' = IF ~merged THEN "returned" ELSE "while"
    /\ UNCHANGED <<pattern_queue, merge_result, merged, scan, call>>
    /\ MergeFrame

MergeNext == enter_merge_patterns \/ outer_loop \/ for_loop \/ overlap_loop \/ check_merged

MergeSpec == MergeInit /\ [][MergeNext]_vars
\* the interpreter goes on running the function
MergeLive == MergeSpec /\ WF_vars(MergeNext)

\* x can be read off r from left to right, skipping stops of r
RECURSIVE KeepsOrder(_, _)
KeepsOrder(x, r) ==
    IF x = <<>> THEN TRUE
    ELSE IF r = <<>> THEN FALSE
    ELSE IF Head(x) = Head(r) THEN KeepsOrder(Tail(x), Tail(r))
    ELSE KeepsOrder(x, Tail(r))

\* merge_two_patterns has just returned a merged pattern
ReturnedMerged == pc = "if not merged" /\ merged

\* C38: a pattern merge_two_patterns returns for a and b holds every stop of a
\* and every stop of b, and the stops of a, and those of b, are in it in the
\* order they have in a, and in b
C38_MergeKeepsStops ==
    ReturnedMerged =>
        /\ Elems(call.a) \cup Elems(call.b) \subseteq Elems(merge_result)
        /\ KeepsOrder(call.a, merge_result)
        /\ KeepsOrder(call.b, merge_result)

\* the merge of two patterns one of which ends with its last common stop
C38_EndsTogether ==
    (/\ ReturnedMerged
     /\ \/ call.common_idx_a_max = Len(call.a) - 1
        \/ call.common_idx_b_max = Len(call.b) - 1
     /\ call.i = Len(call.a_overlap)
     /\ call.j = Len(call.b_overlap))
        => /\ Elems(call.a) \cup Elems(call.b) \subseteq Elems(merge_result)
\* two patterns with one common stop, each with a stop of its own after it
C38_BothGoOn ==
    ~(/\ ReturnedMerged
      /\ call.a = <<"s1", "s2">>
      /\ call.b = <<"s1", "s3">>
      /\ merge_result = <<"s1", "s3">>)

\* one step of merge_patterns: a pass of the overlap loop that stays in the
\* loop moves i or j forward and neither back; a pass of the outer loop ends
\* with one pattern less in the queue and merged set, or with the queue as it
\* was and merged not set, and then the loop is left
C39_Pass ==
    /\ (pc = "overlap" /\ pc' = "overlap") =>
           /\ call'.i >= call.i
           /\ call'.j >= call.j
           /\ call'.i + call'.j > call.i + call.j
    /\ (pc \in {"for", "overlap"}) =>
           IF pc' = "if not merged"
           THEN \/ merged' /\ Len(pattern_queue') = Len(pattern_queue) - 1
                \/ ~merged' /\ pattern_queue' = pattern_queue
           ELSE pattern_queue' = pattern_queue /\ merged' = merged
    /\ (pc = "if not merged") =>
           /\ pattern_queue' = pattern_queue
           /\ pc' = IF merged THEN "while" ELSE "returned"
    /\ (pc = "while") =>
           /\ pattern_queue' = pattern_queue
           /\ pc' = IF pattern_queue = <<>> THEN "returned" ELSE "for"

\* C39: merge_patterns returns for every non-empty list of trips; a pass of
\* its outer loop takes one pattern off the queue or leaves the loop, and a
\* pass of the overlap loop moves at least one of the two indices forward or
\* returns
C39_MergeTerminates == [][C39_Pass]_vars /\ <>(pc = "returned")

\* three trips merged into one pattern, the last merge with a skipped stop
C39_Witness ==
    /\ pc = "returned"
    /\ Cardinality(DOMAIN patterns) = 3
    /\ pattern_queue = <<>>
    /\ merged
    /\ call # <<>>
    /\ call.i # call.j

====
